---- MODULE Spec2Model ----
(***************************************************************************)
(* Order workflow of the e-commerce microservices: the order assembler     *)
(* (OrderService.create_order), the lifecycle manager (update_order_status,*)
(* update_payment_status, cancel_order), the order repository and the      *)
(* event emitter of the order service.                                     *)
(*                                                                         *)
(* Money is counted in units of 1/10000 of the currency unit, so that      *)
(* Python's round(x, 2) is a real rounding and not the identity.           *)
(* Fields of Order no operation below branches on (user_email,             *)
(* shipping_method, tracking_number, payment_method, metadata, created_at, *)
(* updated_at) are left out of the order record.                           *)
(***************************************************************************)
EXTENDS Integers, Sequences, FiniteSets, TLC

\* ---------------------------------------------------------------- bounds
MaxOrders == 1      \* orders the store can hold
MaxAddresses == 2   \* shipping-address records the store can hold
MaxTime == 2        \* values of the clock
MaxNotes == 2       \* lines of an order's notes
MaxLines == 2       \* lines of a create_order request
MaxQty == 2         \* quantity of one requested line

MaxUsers == 3      \* users registered
MaxTasks == 2      \* requests in flight at once
MaxNotifications == 2  \* notifications stored
MaxStock == 2      \* units a product is restocked up to
MaxBacklog == 101   \* notifications stored when the failed ones pile up

\* ------------------------------------------------------------- constants
None == "None"
Cent == 100                  \* round(x, 2): one cent, in money units
Dollar == 100 * Cent
TaxRatePct == 8              \* tax_rate = 0.08
FreeShippingFrom == 100      \* shipping is free from this subtotal on
FlatShipping == 10           \* shipping_cost below the threshold

OrderStatuses ==
  {"pending", "confirmed", "processing", "shipped", "delivered", "cancelled",
   "refunded"}
PaymentStatuses == {"pending", "paid", "failed", "refunded"}

\* credentials and the identities the user service resolves them to
Tokens == {"tokA", "tokB", "expired"}
TokenOwner == [t \in Tokens |->
  IF t = "tokA" THEN "userA" ELSE IF t = "tokB" THEN "userB" ELSE None]

\* order identifiers: ObjectIds 1..MaxOrders are handed out in turn,
\* MaxOrders + 1 is a well-formed identifier that is never stored, and
\* the identifier below 1 stands for a string that is not an ObjectId
WellFormedIds == 1..(MaxOrders + 1)
RequestIds == 0..(MaxOrders + 1)
NoId == 0
NoTime == 0

\* product identifiers a request can name; "ghost" is not in the catalogue
ProductIds == {"A", "B", "S", "U", "E", "ghost"}

\* the notes a caller can supply ("" is the empty string, falsy in Python)
NoteTexts == {None, "", "restock"}
CancelNote == "Cancelled by customer"

VARIABLES
  orders,      \* orders collection: identifier -> stored Order document
  addresses,   \* shipping_addresses collection: set of address identifiers
  products,    \* catalogue of the product service: identifier -> product
  kafka,       \* kafka_producer: [kafka_enabled, producer, started]
  now,         \* datetime.utcnow()
  result,      \* response of the last request
  emitted,     \* events the last request published
  users,       \* users collection of the user service, in insertion order
  categories,  \* categories collection of the product service
  tasks,       \* requests in flight, each suspended at an await
  notifications \* notifications collection of the notification service

vars == <<orders, addresses, products, kafka, now, result, emitted,
          users, categories, tasks, notifications>>

\* what a request of the order service leaves alone
elsewhere == <<users, categories, tasks, notifications>>

\* the requests that can be in flight, and one that is not
Tasks == 1..MaxTasks
Idle == [op |-> "idle"]

\* the categories collection the product service starts with
Shelves ==
  <<[name |-> "Books", is_active |-> TRUE],
    [name |-> "Games", is_active |-> TRUE]>>

\* ------------------------------------------------------------ arithmetic
\* the multiple of m nearest to x, ties to the even multiple (Python round)
RoundHalfEven(x, m) ==
  LET q == x \div m
      r == x % m
  IN  IF 2 * r < m THEN q * m
      ELSE IF 2 * r > m THEN (q + 1) * m
      ELSE IF q % 2 = 0 THEN q * m ELSE (q + 1) * m

\* round(x, 2)
Round2(x) == RoundHalfEven(x, Cent)

Max(a, b) == IF a >= b THEN a ELSE b

RECURSIVE SumTotalPrice(_)
SumTotalPrice(items) ==
  IF items = <<>> THEN 0
  ELSE Head(items).total_price + SumTotalPrice(Tail(items))

\* ------------------------------------------------------------ the models
\* OrderItem(...): the total_price validator overrides the value passed in
OrderItem(product_id, unit_price, quantity) ==
  [product_id |-> product_id, unit_price |-> unit_price,
   quantity |-> quantity, total_price |-> Round2(unit_price * quantity)]

\* Order.calculate_subtotal
CalculateSubtotal(v, items) ==
  IF items # <<>> THEN Round2(SumTotalPrice(items)) ELSE v

\* Order.calculate_total_amount
CalculateTotalAmount(subtotal, tax_amount, shipping_cost, discount_amount) ==
  Round2(Max(subtotal + tax_amount + shipping_cost - discount_amount, 0))

\* Order(**data) and Order.get: pydantic runs the validators in field order
\* whenever a document is built from a dict, also when it is loaded
OrderValidate(d) ==
  LET sub == CalculateSubtotal(d.subtotal, d.items)
  IN  [d EXCEPT !.subtotal = sub,
                !.total_amount = CalculateTotalAmount(sub, d.tax_amount,
                                    d.shipping_cost, d.discount_amount)]

\* Order.is_cancellable
\* shipped orders taken for cancellable
IsCancellableUntilDelivered(order) ==
  order.status \in {"pending", "confirmed", "processing", "shipped"}

IsCancellable(order) ==
  order.status \in {"pending", "confirmed", "processing"}

\* any answer of the user service taken for an identity
VerifyUserTokenAnyAnswer(token, callOk) ==
  IF callOk
  THEN IF TokenOwner[token] # None THEN TokenOwner[token] ELSE "anonymous"
  ELSE None

\* ----------------------------------------------------- external services
\* UserServiceClient.verify_user_token: the identity on a 200 answer, None
\* on any other answer and on a failed call
VerifyUserToken(token, callOk) ==
  IF callOk /\ TokenOwner[token] # None THEN TokenOwner[token] ELSE None

\* ProductServiceClient.get_product_by_id: the product on a 200 answer,
\* None (NoProduct) otherwise
NoProduct == [none |-> TRUE]
GetProductById(product_id) ==
  IF product_id \in DOMAIN products /\ products[product_id].is_active
  THEN products[product_id] ELSE NoProduct

\* ProductServiceClient.check_product_availability
CheckProductAvailability(product_id, quantity) ==
  LET product == GetProductById(product_id)
  IN  IF product = NoProduct
      THEN [available |-> FALSE, reason |-> "Product not found"]
      ELSE IF ~product.is_available
      THEN [available |-> FALSE, reason |-> "Product not available"]
      ELSE IF product.stock_is_null   \* None < int raises TypeError
      THEN [available |-> FALSE, reason |-> "Service error"]
      ELSE IF product.stock_quantity < quantity
      THEN [available |-> FALSE, reason |-> "Insufficient stock"]
      ELSE [available |-> TRUE, reason |-> None]

\* ProductServiceClient.reserve_products: one reservation per item, in order
ReserveProducts(items) ==
  LET reservations == [i \in 1..Len(items) |->
        LET a == CheckProductAvailability(items[i].product_id,
                                          items[i].quantity)
        IN  [product_id |-> items[i].product_id,
             quantity |-> items[i].quantity,
             reserved |-> a.available,
             reason |-> a.reason,
             product |-> IF a.available
                         THEN GetProductById(items[i].product_id)
                         ELSE NoProduct]]
      total_reserved ==
        Cardinality({i \in 1..Len(items) : reservations[i].reserved})
  IN  [success |-> total_reserved = Len(items), reservations |-> reservations]

\* the stock of the reserved lines taken out of the inventory
RECURSIVE DrawDown(_, _)
DrawDown(stock, reservations) ==
  IF reservations = <<>> THEN stock
  ELSE DrawDown(IF Head(reservations).reserved
                THEN [stock EXCEPT ![Head(reservations).product_id]
                                      .stock_quantity
                                       = @ - Head(reservations).quantity]
                ELSE stock,
                Tail(reservations))

\* reserve_products writing the reservations to the inventory
InventoryDrawnDown(reservations) == DrawDown(products, reservations)

\* the inventory after reserve_products has answered: the mock
\* implementation validates availability and writes nothing
Inventory(reservations) == products

\* --------------------------------------------------------- event emitter
\* the message send_event hands to the producer: the envelope carries the
\* topic as its event_type, the payload carries the event's own type
Event(type, key) ==
  [topic |-> "order-events", service |-> "order-service",
   event_type |-> "order-events", data_event_type |-> type, key |-> key]

NothingSent == [raised |-> FALSE, sent |-> <<>>]

\* send_event letting a failed send reach its caller
SendEventRaising(bus, type, key, sendOk) ==
  IF ~bus.kafka_enabled \/ bus.producer = None
  THEN NothingSent
  ELSE IF sendOk
  THEN [raised |-> FALSE, sent |-> <<Event(type, key)>>]
  ELSE [raised |-> TRUE, sent |-> <<>>]

\* KafkaProducer.send_event on the producer object bus: what reaches the
\* topic and whether the call raises to its caller; sendOk is the outcome
\* of producer.send_and_wait
SendEvent(bus, type, key, sendOk) ==
  IF ~bus.kafka_enabled \/ bus.producer = None
  THEN NothingSent
  ELSE IF sendOk
  THEN [raised |-> FALSE, sent |-> <<Event(type, key)>>]
  ELSE NothingSent              \* KafkaError and Exception are logged

\* ------------------------------------------------------ order repository
\* Optional[Order]: None or a document; raised when the call raises
NoOrder == [raised |-> FALSE, found |-> FALSE, doc |-> <<>>]
Found(doc) == [raised |-> FALSE, found |-> TRUE, doc |-> doc]
Raised == [raised |-> TRUE, found |-> FALSE, doc |-> <<>>]

\* Order.get: a document, None for an unknown identifier, an exception for
\* a string that is not an ObjectId
OrderGet(order_id) ==
  IF order_id \notin WellFormedIds THEN Raised
  ELSE IF order_id \in DOMAIN orders THEN Found(OrderValidate(orders[order_id]))
  ELSE NoOrder

\* OrderRepository.get_order_by_id
GetOrderById(order_id) ==
  IF OrderGet(order_id).raised THEN NoOrder ELSE OrderGet(order_id)

\* OrderRepository.create_order: Order(**order_data), then insert
NewOrder(order_data) == OrderValidate(order_data)

\* the milestone stamped at every entry of its status
StampMilestoneAlways(order, status) ==
  IF status = "confirmed" THEN [order EXCEPT !.confirmed_at = now]
  ELSE IF status = "shipped" THEN [order EXCEPT !.shipped_at = now]
  ELSE IF status = "delivered" THEN [order EXCEPT !.delivered_at = now]
  ELSE order

\* the stamping of the confirmation only
StampMilestoneConfirmedOnly(order, status) ==
  IF status = "confirmed" /\ order.confirmed_at = NoTime
  THEN [order EXCEPT !.confirmed_at = now]
  ELSE order

\* the stamping of the milestone timestamps in update_order_status
StampMilestone(order, status) ==
  IF status = "confirmed" /\ order.confirmed_at = NoTime
  THEN [order EXCEPT !.confirmed_at = now]
  ELSE IF status = "shipped" /\ order.shipped_at = NoTime
  THEN [order EXCEPT !.shipped_at = now]
  ELSE IF status = "delivered" /\ order.delivered_at = NoTime
  THEN [order EXCEPT !.delivered_at = now]
  ELSE order

\* "if notes:" is false for None and for the empty string
Truthy(text) == text # None /\ text # ""

\* the new note written over the notes the order has
AppendNoteOverwriting(order, notes) ==
  IF Truthy(notes)
  THEN [order EXCEPT !.notes = <<[at |-> now, text |-> notes]>>]
  ELSE order

\* the note appended by update_order_status: "<utcnow>: <notes>" on a line
\* of its own after the notes the order already has
AppendNote(order, notes) ==
  IF Truthy(notes)
  THEN [order EXCEPT !.notes = Append(@, [at |-> now, text |-> notes])]
  ELSE order

\* update_order_status refusing to leave a final status
UpdateOrderStatusFinal(order_id, status, notes) ==
  LET got == OrderGet(order_id)
  IN  IF got.raised \/ ~got.found THEN NoOrder
      ELSE IF got.doc.status \in {"delivered", "cancelled", "refunded"}
      THEN Raised
      ELSE Found(AppendNote(
                   StampMilestone([got.doc EXCEPT !.status = status], status),
                   notes))

\* OrderRepository.update_order_status: the saved document, or None
UpdateOrderStatus(order_id, status, notes) ==
  LET got == OrderGet(order_id)
  IN  IF got.raised \/ ~got.found THEN NoOrder
      ELSE Found(AppendNote(
                   StampMilestone([got.doc EXCEPT !.status = status], status),
                   notes))

\* a payment that confirms the order it pays
UpdatePaymentStatusConfirming(order_id, payment_status, payment_transaction_id) ==
  LET got == OrderGet(order_id)
  IN  IF got.raised \/ ~got.found THEN NoOrder
      ELSE Found([got.doc EXCEPT
                    !.payment_status = payment_status,
                    !.status = IF payment_status = "paid"
                               THEN "confirmed" ELSE @,
                    !.payment_transaction_id =
                       IF Truthy(payment_transaction_id)
                       THEN payment_transaction_id ELSE @])

\* update_payment_status without its except clause
UpdatePaymentStatusUncaught(order_id, payment_status, payment_transaction_id) ==
  LET got == OrderGet(order_id)
  IN  IF got.raised THEN Raised
      ELSE IF ~got.found THEN NoOrder
      ELSE Found([got.doc EXCEPT
                    !.payment_status = payment_status,
                    !.payment_transaction_id =
                       IF Truthy(payment_transaction_id)
                       THEN payment_transaction_id ELSE @])

\* OrderRepository.update_payment_status: the saved document, or None
UpdatePaymentStatus(order_id, payment_status, payment_transaction_id) ==
  LET got == OrderGet(order_id)
  IN  IF got.raised \/ ~got.found THEN NoOrder
      ELSE Found([got.doc EXCEPT
                    !.payment_status = payment_status,
                    !.payment_transaction_id =
                       IF Truthy(payment_transaction_id)
                       THEN payment_transaction_id ELSE @])

\* OrderRepository.update_order: setattr of every key of update_data (field
\* names of Order) on the loaded document, then save; the validators of
\* the other fields do not run on an assignment
UpdateOrderDoc(order_id, update_data) ==
  LET got == OrderGet(order_id)
  IN  IF got.raised \/ ~got.found THEN NoOrder
      ELSE Found([f \in DOMAIN got.doc |->
                    IF f \in DOMAIN update_data THEN update_data[f]
                    ELSE got.doc[f]])

\* delete_order cancelling whatever the status
DeleteOrderDocAnyStatus(order_id) ==
  LET got == OrderGet(order_id)
  IN  IF got.raised \/ ~got.found THEN NoOrder
      ELSE Found([got.doc EXCEPT !.status = "cancelled"])

\* OrderRepository.delete_order: the document saved, None when it answers
\* False
DeleteOrderDoc(order_id) ==
  LET got == OrderGet(order_id)
  IN  IF got.raised \/ ~got.found THEN NoOrder
      ELSE IF ~IsCancellable(got.doc) THEN NoOrder
      ELSE Found([got.doc EXCEPT !.status = "cancelled"])

\* order.save(): the collection after the document has been written
Save(order_id, doc) == [orders EXCEPT ![order_id] = doc]

\* what a request leaves behind: the response (code, order_id, detail),
\* the two collections, the events published and the calls made to the
\* user service and to the product service
Outcome(code, order_id, detail, new_orders, new_addresses, sent, identity_calls, product_calls) ==
  [code |-> code, order_id |-> order_id, detail |-> detail,
   orders |-> new_orders, addresses |-> new_addresses, emitted |-> sent,
   identity_calls |-> identity_calls, product_calls |-> product_calls,
   products |-> products]

\* a request that fails before it writes
Failure(code, order_id, detail, identity_calls, product_calls) ==
  Outcome(code, order_id, detail, orders, addresses, <<>>, identity_calls,
          product_calls)

\* ---------------------------------------------------- the order assembler
Lines == [product_id : ProductIds, quantity : 1..MaxQty]
Requests == UNION {[1..n -> Lines] : n \in 0..MaxLines}

\* the order items create_order builds from the reserved lines
OrderItems(reservations) ==
  LET reserved == SelectSeq(reservations, LAMBDA r : r.reserved)
  IN  [i \in 1..Len(reserved) |->
         OrderItem(reserved[i].product_id, reserved[i].product.price,
                   reserved[i].quantity)]

\* tax_amount = round(subtotal * tax_rate, 2)
TaxAmount(subtotal) ==
  RoundHalfEven(subtotal * TaxRatePct, 100 * Cent) \div 100

\* shipping charged up to and including the threshold
ShippingCostInclusive(subtotal) ==
  IF subtotal <= FreeShippingFrom * Dollar THEN FlatShipping * Dollar ELSE 0

\* shipping_cost = 10.0 if subtotal < 100 else 0.0
ShippingCost(subtotal) ==
  IF subtotal < FreeShippingFrom * Dollar THEN FlatShipping * Dollar ELSE 0

\* order_dict of create_order
OrderDict(order_id, user_id, order_items, address_id, notes) ==
  LET subtotal == SumTotalPrice(order_items)
  IN  [order_number |-> <<"ORD", order_id>>,
       user_id |-> user_id,
       items |-> order_items,
       subtotal |-> subtotal,
       tax_amount |-> TaxAmount(subtotal),
       shipping_cost |-> ShippingCost(subtotal),
       discount_amount |-> 0,
       total_amount |-> subtotal + TaxAmount(subtotal) + ShippingCost(subtotal),
       status |-> "pending",
       payment_status |-> "pending",
       payment_transaction_id |-> None,
       shipping_address |-> address_id,
       confirmed_at |-> NoTime,
       shipped_at |-> NoTime,
       delivered_at |-> NoTime,
       notes |-> IF Truthy(notes) THEN <<[at |-> NoTime, text |-> notes]>>
                 ELSE <<>>]

\* the message naming the first failed reservation only
ErrorDetailsFirst(reservations) ==
  LET failed == SelectSeq(reservations, LAMBDA r : ~r.reserved)
  IN  <<[product_id |-> failed[1].product_id, reason |-> failed[1].reason]>>

\* the lines of the BadRequest message: one per reservation that failed
ErrorDetails(reservations) ==
  LET failed == SelectSeq(reservations, LAMBDA r : ~r.reserved)
  IN  [i \in 1..Len(failed) |->
         [product_id |-> failed[i].product_id, reason |-> failed[i].reason]]

\* OrderService.create_order with the producer object bus; insertOk is the
\* outcome of the insert of the order document, sendOk that of the publish
CreateOrderOutcome(bus, token, callOk, items, notes, insertOk, sendOk) ==
  LET user_id == VerifyUserToken(token, callOk)
      reservation == ReserveProducts(items)
      address_id == Cardinality(addresses) + 1
      order_id == Len(orders) + 1
      order == NewOrder(OrderDict(order_id, user_id,
                 OrderItems(reservation.reservations), address_id, notes))
      sent == SendEvent(bus, "order.created", order_id, sendOk)
      answered ==
        IF user_id = None
        THEN Failure("Unauthorized", NoId, <<>>, 1, 0)
        ELSE IF ~reservation.success
        THEN Failure("BadRequest", NoId,
                     ErrorDetails(reservation.reservations), 1, Len(items))
        ELSE IF ~insertOk
        THEN Outcome("Internal", NoId, <<>>, orders,
                     addresses \cup {address_id}, <<>>, 1, Len(items))
        ELSE Outcome(IF sent.raised THEN "Internal" ELSE "Created", order_id,
                     <<>>, Append(orders, order), addresses \cup {address_id},
                     sent.sent, 1, Len(items))
  IN  IF user_id = None THEN answered
      ELSE [answered EXCEPT !.products = Inventory(reservation.reservations)]

\* ------------------------------------------------- the lifecycle manager
\* an event for every status but pending
StatusEventForEach(status) ==
  IF status = "pending" THEN None ELSE "order." \o status

\* the event update_order_status publishes for a status
StatusEvent(status) ==
  CASE status = "confirmed" -> "order.confirmed"
    [] status = "cancelled" -> "order.cancelled"
    [] status = "shipped" -> "order.shipped"
    [] status = "delivered" -> "order.delivered"
    [] OTHER -> None

\* the event update_payment_status publishes for a payment status
PaymentEvent(payment_status) ==
  CASE payment_status = "paid" -> "order.payment_completed"
    [] payment_status = "failed" -> "order.payment_failed"
    [] OTHER -> None

\* the tail of the three handlers: the repository has answered with order,
\* the event of type type (None: no event) is published, the order is
\* returned
Answer(bus, order_id, order, type, sendOk, identity_calls) ==
  LET sent == IF type = None THEN NothingSent
              ELSE SendEvent(bus, type, order_id, sendOk)
  IN  Outcome(IF sent.raised THEN "Internal" ELSE "OK", order_id, <<>>,
              Save(order_id, order.doc), addresses, sent.sent,
              identity_calls, 0)

\* OrderService.update_order_status
SetStatusOutcome(bus, order_id, status, notes, sendOk) ==
  LET order == UpdateOrderStatus(order_id, status, notes)
  IN  IF order.raised THEN Failure("Internal", order_id, <<>>, 0, 0)
      ELSE IF ~order.found THEN Failure("NotFound", order_id, <<>>, 0, 0)
      ELSE Answer(bus, order_id, order, StatusEvent(status), sendOk, 0)

\* OrderService.update_payment_status
SetPaymentStatusOutcome(bus, order_id, payment_status, payment_transaction_id, sendOk) ==
  LET order == UpdatePaymentStatus(order_id, payment_status,
                                   payment_transaction_id)
  IN  IF order.raised THEN Failure("Internal", order_id, <<>>, 0, 0)
      ELSE IF ~order.found THEN Failure("NotFound", order_id, <<>>, 0, 0)
      ELSE Answer(bus, order_id, order, PaymentEvent(payment_status),
                  sendOk, 0)

\* the checks of cancel_order with the status looked at before the owner
CancelFailureStatusFirst(order_id, token, callOk) ==
  LET user_id == VerifyUserToken(token, callOk)
      order == GetOrderById(order_id)
  IN  IF user_id = None THEN "Unauthorized"
      ELSE IF ~order.found THEN "NotFound"
      ELSE IF ~IsCancellable(order.doc) THEN "BadRequest"
      ELSE IF order.doc.user_id # user_id THEN "Forbidden"
      ELSE None

\* the first check of cancel_order that fails, None when all pass
CancelFailure(order_id, token, callOk) ==
  LET user_id == VerifyUserToken(token, callOk)
      order == GetOrderById(order_id)
  IN  IF user_id = None THEN "Unauthorized"
      ELSE IF ~order.found THEN "NotFound"
      ELSE IF order.doc.user_id # user_id THEN "Forbidden"
      ELSE IF ~IsCancellable(order.doc) THEN "BadRequest"
      ELSE None

\* OrderService.cancel_order
CancelOrderOutcome(bus, order_id, token, callOk, sendOk) ==
  LET failure == CancelFailure(order_id, token, callOk)
      cancelled == UpdateOrderStatus(order_id, "cancelled", CancelNote)
  IN  IF failure # None THEN Failure(failure, order_id, <<>>, 1, 0)
      ELSE IF ~cancelled.found             \* cancelled_order.id on None
      THEN Failure("Internal", order_id, <<>>, 1, 0)
      ELSE Answer(bus, order_id, cancelled, "order.cancelled", sendOk, 1)

\* --------------------------------------------------------------- actions
Response(op, code, order_id, detail) ==
  [op |-> op, code |-> code, order_id |-> order_id, detail |-> detail]

\* the service has answered a request with the outcome out
Respond(op, out) ==
  /\ \A order_id \in DOMAIN out.orders :
        Len(out.orders[order_id].notes) <= MaxNotes
  /\ orders' = out.orders
  /\ addresses' = out.addresses
  /\ emitted' = out.emitted
  /\ result' = Response(op, out.code, out.order_id, out.detail)
  /\ products' = out.products
  /\ UNCHANGED <<kafka, now>>
  /\ UNCHANGED elsewhere

\* POST /api/v1/orders/
CreateOrder(token, callOk, items, notes, insertOk, sendOk) ==
  /\ kafka.started
  /\ Len(orders) < MaxOrders
  /\ Cardinality(addresses) < MaxAddresses
  /\ Respond("create_order",
             CreateOrderOutcome(kafka, token, callOk, items, notes, insertOk,
                                sendOk))

\* PATCH /api/v1/orders/{order_id}/status
SetStatus(order_id, status, notes, sendOk) ==
  /\ kafka.started
  /\ Respond("update_order_status",
             SetStatusOutcome(kafka, order_id, status, notes, sendOk))

\* PATCH /api/v1/orders/{order_id}/payment
SetPaymentStatus(order_id, payment_status, payment_transaction_id, sendOk) ==
  /\ kafka.started
  /\ Respond("update_payment_status",
             SetPaymentStatusOutcome(kafka, order_id, payment_status,
                                     payment_transaction_id, sendOk))

\* PATCH /api/v1/orders/{order_id}/cancel
CancelOrder(order_id, token, callOk, sendOk) ==
  /\ kafka.started
  /\ Respond("cancel_order",
             CancelOrderOutcome(kafka, order_id, token, callOk, sendOk))

\* a caller of OrderRepository.update_order
UpdateOrder(order_id, update_data) ==
  /\ kafka.started
  /\ LET order == UpdateOrderDoc(order_id, update_data)
     IN  /\ orders' = IF order.found THEN Save(order_id, order.doc) ELSE orders
         /\ result' = Response("update_order",
                               IF order.found THEN "OK" ELSE None,
                               order_id, <<>>)
  /\ emitted' = <<>>
  /\ UNCHANGED <<addresses, products, kafka, now>>
  /\ UNCHANGED elsewhere

\* a caller of OrderRepository.delete_order
DeleteOrder(order_id) ==
  /\ kafka.started
  /\ LET order == DeleteOrderDoc(order_id)
     IN  /\ orders' = IF order.found THEN Save(order_id, order.doc) ELSE orders
         /\ result' = Response("delete_order",
                               IF order.found THEN "True" ELSE "False",
                               order_id, <<>>)
  /\ emitted' = <<>>
  /\ UNCHANGED <<addresses, products, kafka, now>>
  /\ UNCHANGED elsewhere

\* ----------------------------------------------------------------- Init
Catalogue ==
  [p \in ProductIds \ {"ghost"} |->
     [price |-> CASE p = "A" -> 30 * Dollar
                  [] p = "B" -> 50 * Dollar
                  [] p = "S" -> 3333
                  [] OTHER -> 20 * Dollar,
      is_available |-> p # "U",
      stock_quantity |-> IF p = "S" THEN 1 ELSE 5,
      stock_is_null |-> p = "E",
      is_active |-> TRUE,
      sku |-> IF p = "A" THEN "sku-A" ELSE None,
      category_id |-> IF p \in {"A", "B"} THEN 1 ELSE NoId,
      category_name |-> IF p \in {"A", "B"} THEN "Books" ELSE None]]

Init ==
  /\ orders = <<>>
  /\ addresses = {}
  /\ products = Catalogue
  /\ kafka \in [kafka_enabled : BOOLEAN, producer : {None}, started : {FALSE}]
  /\ now = 1
  /\ result = Response("none", None, NoId, <<>>)
  /\ emitted = <<>>
  /\ users = <<>>
  /\ categories = Shelves
  /\ tasks = [t \in Tasks |-> Idle]
  /\ notifications = <<>>

\* lifespan startup: KafkaProducer.start
Startup(startOk) ==
  /\ ~kafka.started
  /\ kafka' = [kafka EXCEPT !.started = TRUE,
                 !.producer = IF kafka.kafka_enabled /\ startOk
                              THEN "AIOKafkaProducer" ELSE None]
  /\ result' = Response("startup", None, NoId, <<>>)
  /\ emitted' = <<>>
  /\ UNCHANGED <<orders, addresses, products, now>>
  /\ UNCHANGED elsewhere

\* time passes between two requests
Tick ==
  /\ now < MaxTime
  /\ now' = now + 1
  /\ UNCHANGED <<orders, addresses, products, kafka, result, emitted>>
  /\ UNCHANGED elsewhere

\* ------------------------------------------------------- specifications
CreateNotes == {None, "gift"}

\* the requests the lifecycle specifications place orders with: the
\* lifecycle operations read no line item and no amount of an order
SampleRequests ==
  {<<[product_id |-> "A", quantity |-> 2]>>,
   <<[product_id |-> "U", quantity |-> 1]>>}

\* what update_order is called with
UpdateData ==
  {[discount_amount |-> 5 * Dollar], [discount_amount |-> 500 * Dollar],
   [status |-> "processing"]}

\* the statuses whose first entry is stamped
Milestones == {"confirmed", "shipped", "delivered"}

\* the transport is enabled in the environment (KAFKA_ENABLED=true)
InitEnabled == Init /\ kafka.kafka_enabled

\* lifespan startup, the producer starting as startOks says
Boot(startOks) == \E startOk \in startOks : Startup(startOk)

\* a create_order request
PlaceOrder(requests, notes_given, insertOks) ==
  \E token \in Tokens, callOk \in BOOLEAN, items \in requests,
     notes \in notes_given, insertOk \in insertOks, sendOk \in BOOLEAN :
    CreateOrder(token, callOk, items, notes, insertOk, sendOk)

\* a status update
ChangeStatus(statuses, notes_given) ==
  \E order_id \in RequestIds, status \in statuses,
     notes \in notes_given, sendOk \in BOOLEAN :
    SetStatus(order_id, status, notes, sendOk)

\* a payment update
ChangePayment(payment_statuses, txns) ==
  \E order_id \in RequestIds, payment_status \in payment_statuses,
     txn \in txns, sendOk \in BOOLEAN :
    SetPaymentStatus(order_id, payment_status, txn, sendOk)

\* a cancellation
Cancel ==
  \E order_id \in RequestIds, token \in Tokens, callOk \in BOOLEAN,
     sendOk \in BOOLEAN :
    CancelOrder(order_id, token, callOk, sendOk)

\* The order service taking orders through their lifecycle, the transport
\* enabled and started, all requests served at one instant.
Next ==
  \/ Boot({TRUE})
  \/ PlaceOrder(SampleRequests, CreateNotes, {TRUE})
  \/ ChangeStatus(OrderStatuses, NoteTexts)
  \/ Cancel

Spec == InitEnabled /\ [][Next]_vars

\* The lifecycle under every state of the transport.
NextEmit ==
  \/ Boot(BOOLEAN)
  \/ PlaceOrder(SampleRequests, {None}, {TRUE})
  \/ ChangeStatus({"pending", "confirmed", "processing", "cancelled"}, {None})
  \/ ChangePayment(PaymentStatuses, {None})
  \/ Cancel

SpecEmit == Init /\ [][NextEmit]_vars

\* The lifecycle with time passing between the requests.
NextClock ==
  \/ Boot({TRUE})
  \/ Tick
  \/ PlaceOrder(SampleRequests, {None}, {TRUE})
  \/ ChangeStatus(Milestones \cup {"pending"}, {None})
  \/ ChangePayment({"paid"}, {"txn-1"})
  \/ Cancel

SpecClock == InitEnabled /\ [][NextClock]_vars

\* The order assembler alone, over every request within the bounds.
NextAssemble ==
  \/ Boot(BOOLEAN)
  \/ PlaceOrder(Requests, CreateNotes, BOOLEAN)

SpecAssemble == Init /\ [][NextAssemble]_vars

\* The lifecycle together with the callers of update_order and
\* delete_order of the repository.
NextRepo ==
  \/ Boot({TRUE})
  \/ PlaceOrder(SampleRequests, {None}, {TRUE})
  \/ ChangeStatus({"pending", "shipped"}, {None})
  \/ ChangePayment({"paid"}, {None})
  \/ Cancel
  \/ \E order_id \in RequestIds, update_data \in UpdateData :
       UpdateOrder(order_id, update_data)
  \/ \E order_id \in RequestIds : DeleteOrder(order_id)

SpecRepo == InitEnabled /\ [][NextRepo]_vars

\* -------------------------------------------- create_order, overlapping
\* the requests two buyers place for the last unit of a product
LastUnitRequests ==
  {<<[product_id |-> "S", quantity |-> 1]>>,
   <<[product_id |-> "S", quantity |-> 2]>>}

\* POST /api/v1/orders/ to the await of the first insert: the credential
\* is verified and the products are reserved
CreateOrderCheck(t, token, callOk, items, notes) ==
  /\ kafka.started
  /\ tasks[t] = Idle
  /\ IF VerifyUserToken(token, callOk) = None \/ ~ReserveProducts(items).success
     THEN Respond("create_order",
                  CreateOrderOutcome(kafka, token, callOk, items, notes,
                                     TRUE, TRUE))
     ELSE /\ tasks' = [tasks EXCEPT ![t] =
                         [op |-> "create_order", token |-> token,
                          callOk |-> callOk, items |-> items,
                          notes |-> notes]]
          /\ UNCHANGED <<orders, addresses, products, kafka, now, result,
                         emitted, users, categories, notifications>>

\* POST /api/v1/orders/ from the inserts on: the address and the order are
\* stored, the event is published
CreateOrderPersist(t, insertOk, sendOk) ==
  /\ tasks[t].op = "create_order"
  /\ Len(orders) < MaxTasks
  /\ Cardinality(addresses) < MaxAddresses
  /\ LET out == CreateOrderOutcome(kafka, tasks[t].token, tasks[t].callOk,
                                   tasks[t].items, tasks[t].notes, insertOk,
                                   sendOk)
     IN  /\ orders' = out.orders
         /\ addresses' = out.addresses
         /\ emitted' = out.emitted
         /\ result' = Response("create_order", out.code, out.order_id,
                               out.detail)
         /\ products' = out.products
  /\ tasks' = [tasks EXCEPT ![t] = Idle]
  /\ UNCHANGED <<kafka, now, users, categories, notifications>>

\* The order service taking two orders at once.
NextRace ==
  \/ Boot({TRUE})
  \/ \E t \in Tasks, token \in Tokens, callOk \in BOOLEAN,
        items \in LastUnitRequests :
       CreateOrderCheck(t, token, callOk, items, None)
  \/ \E t \in Tasks, insertOk \in BOOLEAN, sendOk \in BOOLEAN :
       CreateOrderPersist(t, insertOk, sendOk)

SpecRace == InitEnabled /\ [][NextRace]_vars

\* --------------------------------------------- order lifecycle, overlapping
\* Each handler is a coroutine: it runs to its next await, where another
\* request may run. A repository update awaits Order.get and then
\* order.save(), which writes the whole loaded document; the service
\* publishes after the repository has answered.

\* a request of handler op at its step for order_id, holding the document
\* it loaded and changed, and the type of the event it will publish
Pending(op, step, order_id, order, type) ==
  [op |-> op, step |-> step, order_id |-> order_id, order |-> order,
   type |-> type]

\* a request is answered without a write: the failure out
Reject(op, out) == Respond(op, out)

\* the task t goes on to wait as the record next says
Await(t, next) ==
  /\ tasks' = [tasks EXCEPT ![t] = next]
  /\ UNCHANGED <<orders, addresses, products, kafka, now, result, emitted,
                 users, categories, notifications>>

\* PUT /api/v1/orders/{id}/status to the await of order.save():
\* update_order_status has loaded the order and set the status, the
\* milestone and the notes on it
SetStatusRead(t, order_id, status, notes) ==
  /\ kafka.started
  /\ tasks[t] = Idle
  /\ LET order == UpdateOrderStatus(order_id, status, notes)
     IN  IF ~order.found
         THEN Reject("update_order_status",
                     SetStatusOutcome(kafka, order_id, status, notes, TRUE))
         ELSE Await(t, Pending("update_order_status", "save", order_id,
                               order.doc, StatusEvent(status)))

\* PUT /api/v1/orders/{id}/payment to the await of order.save()
SetPaymentStatusRead(t, order_id, payment_status, payment_transaction_id) ==
  /\ kafka.started
  /\ tasks[t] = Idle
  /\ LET order == UpdatePaymentStatus(order_id, payment_status,
                                      payment_transaction_id)
     IN  IF ~order.found
         THEN Reject("update_payment_status",
                     SetPaymentStatusOutcome(kafka, order_id, payment_status,
                                             payment_transaction_id, TRUE))
         ELSE Await(t, Pending("update_payment_status", "save", order_id,
                               order.doc, PaymentEvent(payment_status)))

\* POST /api/v1/orders/{id}/cancel to the await of the repository's
\* Order.get: the credential, the owner and is_cancellable are checked on
\* the order get_order_by_id returned
CancelOrderCheck(t, order_id, token, callOk) ==
  /\ kafka.started
  /\ tasks[t] = Idle
  /\ IF CancelFailure(order_id, token, callOk) # None
     THEN Reject("cancel_order",
                 CancelOrderOutcome(kafka, order_id, token, callOk, TRUE))
     ELSE Await(t, Pending("cancel_order", "get", order_id, <<>>,
                           "order.cancelled"))

\* cancel_order in update_order_status, to the await of order.save(): the
\* order is loaded again and set to cancelled
CancelOrderRead(t) ==
  /\ tasks[t].op = "cancel_order"
  /\ tasks[t].step = "get"
  /\ LET order == UpdateOrderStatus(tasks[t].order_id, "cancelled", CancelNote)
     IN  IF ~order.found
         THEN /\ tasks' = [tasks EXCEPT ![t] = Idle]
              /\ result' = Response("cancel_order", "Internal",
                                    tasks[t].order_id, <<>>)
              /\ emitted' = <<>>
              /\ UNCHANGED <<orders, addresses, products, kafka, now, users,
                             categories, notifications>>
         ELSE Await(t, [tasks[t] EXCEPT !.step = "save", !.order = order.doc])

\* order.save() of a repository update: the document the request holds
\* replaces the stored one; a save that raises makes the repository answer
\* None, which update_order_status and update_payment_status report as 404
\* and cancel_order as 500
OrderSave(t, saveOk) ==
  /\ tasks[t].op \in {"update_order_status", "update_payment_status",
                      "cancel_order"}
  /\ tasks[t].step = "save"
  /\ Len(tasks[t].order.notes) <= MaxNotes
  /\ IF saveOk /\ tasks[t].order_id \in DOMAIN orders
     THEN /\ orders' = Save(tasks[t].order_id, tasks[t].order)
          /\ tasks' = [tasks EXCEPT ![t].step = "publish"]
          /\ UNCHANGED <<result, emitted>>
     ELSE /\ tasks' = [tasks EXCEPT ![t] = Idle]
          /\ result' = Response(tasks[t].op,
                                IF tasks[t].op = "cancel_order"
                                THEN "Internal" ELSE "NotFound",
                                tasks[t].order_id, <<>>)
          /\ emitted' = <<>>
          /\ UNCHANGED orders
  /\ UNCHANGED <<addresses, products, kafka, now, users, categories,
                 notifications>>

\* the tail of the three handlers: the event is published and the request
\* is answered
OrderPublish(t, sendOk) ==
  /\ tasks[t].op \in {"update_order_status", "update_payment_status",
                      "cancel_order"}
  /\ tasks[t].step = "publish"
  /\ LET sent == IF tasks[t].type = None THEN NothingSent
                 ELSE SendEvent(kafka, tasks[t].type, tasks[t].order_id, sendOk)
     IN  /\ emitted' = sent.sent
         /\ result' = Response(tasks[t].op,
                               IF sent.raised THEN "Internal" ELSE "OK",
                               tasks[t].order_id, <<>>)
  /\ tasks' = [tasks EXCEPT ![t] = Idle]
  /\ UNCHANGED <<orders, addresses, products, kafka, now, users, categories,
                 notifications>>

\* The order service serving a status update, a payment update and a
\* cancellation of one order at once.
NextOverlap ==
  \/ Boot({TRUE})
  \/ PlaceOrder(LastUnitRequests, {None}, {TRUE})
  \/ \E t \in Tasks, order_id \in RequestIds :
       SetStatusRead(t, order_id, "shipped", None)
  \/ \E t \in Tasks, order_id \in RequestIds :
       SetPaymentStatusRead(t, order_id, "paid", None)
  \/ \E t \in Tasks, order_id \in RequestIds, token \in Tokens :
       CancelOrderCheck(t, order_id, token, TRUE)
  \/ \E t \in Tasks : CancelOrderRead(t)
  \/ \E t \in Tasks, saveOk \in BOOLEAN : OrderSave(t, saveOk)
  \/ \E t \in Tasks, sendOk \in BOOLEAN : OrderPublish(t, sendOk)

SpecOverlap == InitEnabled /\ [][NextOverlap]_vars

\* The order service serving several status updates of one order at once,
\* every save and every send succeeding.
NextStatusRace ==
  \/ Boot({TRUE})
  \/ PlaceOrder(LastUnitRequests, {None}, {TRUE})
  \/ \E t \in Tasks, order_id \in RequestIds,
        status \in {"confirmed", "cancelled", "shipped", "delivered"} :
       SetStatusRead(t, order_id, status, None)
  \/ \E t \in Tasks : OrderSave(t, TRUE)
  \/ \E t \in Tasks : OrderPublish(t, TRUE)

SpecStatusRace == InitEnabled /\ [][NextStatusRace]_vars

\* --------------------------------------------------------- user service
\* the addresses registrations are made with, as typed
RawEmails ==
  {"ann@example.com", "ann@EXAMPLE.com", "Ann@example.com", "bob@example.com"}

UserNames == {"Ann"}
UserIds == 0..(MaxUsers + 1)

\* pydantic EmailStr: the domain is lower-cased, the local part is kept
EmailStr(email) ==
  IF email = "ann@EXAMPLE.com" THEN "ann@example.com" ELSE email

\* schemas UserCreate and UserUpdate, validated at the boundary
UserCreate(name, email) == [name |-> name, email |-> EmailStr(email)]
UserUpdate(email) == [email |-> IF email = None THEN None ELSE EmailStr(email)]

\* UserRepository.user_exists restricted to the accounts still active
UserExistsActive(email) ==
  \E user_id \in DOMAIN users :
    users[user_id].email = email /\ users[user_id].is_active

\* UserRepository.user_exists
UserExists(email) ==
  \E user_id \in DOMAIN users : users[user_id].email = email

\* UserRepository.get_user_by_id
GetUserById(user_id) ==
  IF user_id \in DOMAIN users THEN Found(users[user_id]) ELSE NoOrder

\* what the user service answers: HTTP status and the collection it leaves
UserOutcome(code, user_id, new_users) ==
  [code |-> code, user_id |-> user_id, users |-> new_users]

\* UserService.register_user behind POST /api/v1/users/register
RegisterUserOutcome(user_data, insertOk) ==
  IF UserExists(user_data.email)
  THEN UserOutcome("BadRequest", NoId, users)
  ELSE IF ~insertOk
  THEN UserOutcome("Internal", NoId, users)
  ELSE UserOutcome("Created", Len(users) + 1,
                   Append(users, [name |-> user_data.name,
                                  email |-> user_data.email,
                                  is_active |-> TRUE]))

\* UserService.update_user_profile
UpdateUserProfileOutcome(user_id, update_data, saveOk) ==
  LET user == GetUserById(user_id)
  IN  IF ~user.found \/ ~user.doc.is_active
      THEN UserOutcome("NotFound", user_id, users)
      ELSE IF /\ update_data.email # None
              /\ update_data.email # user.doc.email
              /\ UserExists(update_data.email)
      THEN UserOutcome("BadRequest", user_id, users)
      ELSE IF ~saveOk
      THEN UserOutcome("Internal", user_id, users)
      ELSE UserOutcome("OK", user_id,
             IF update_data.email = None THEN users
             ELSE [users EXCEPT ![user_id].email = update_data.email])

\* UserRepository.delete_user
DeleteUserDoc(user_id) ==
  IF user_id \in DOMAIN users
  THEN UserOutcome("True", user_id,
                   [users EXCEPT ![user_id].is_active = FALSE])
  ELSE UserOutcome("False", user_id, users)

\* the user service has answered a request
UserRespond(op, out) ==
  /\ Len(out.users) <= MaxUsers
  /\ users' = out.users
  /\ result' = Response(op, out.code, out.user_id, <<>>)
  /\ emitted' = <<>>
  /\ UNCHANGED <<orders, addresses, products, kafka, now, categories, tasks,
                 notifications>>

RegisterUser(name, email, insertOk) ==
  UserRespond("register_user",
              RegisterUserOutcome(UserCreate(name, email), insertOk))

UpdateUserProfile(user_id, email, saveOk) ==
  UserRespond("update_user_profile",
              UpdateUserProfileOutcome(user_id, UserUpdate(email), saveOk))

DeleteUser(user_id) ==
  UserRespond("delete_user", DeleteUserDoc(user_id))

\* The user service registering, renaming and deactivating accounts, one
\* request at a time.
NextUsers ==
  \/ \E name \in UserNames, email \in RawEmails, insertOk \in BOOLEAN :
       RegisterUser(name, email, insertOk)
  \/ \E user_id \in UserIds, email \in RawEmails \cup {None},
        saveOk \in BOOLEAN :
       UpdateUserProfile(user_id, email, saveOk)
  \/ \E user_id \in UserIds : DeleteUser(user_id)

SpecUsers == Init /\ [][NextUsers]_vars

\* POST /api/v1/users/register to the await of the insert: the email has
\* been looked up and the password hashed
RegisterUserCheck(t, name, email) ==
  /\ tasks[t] = Idle
  /\ IF UserExists(UserCreate(name, email).email)
     THEN UserRespond("register_user",
                      RegisterUserOutcome(UserCreate(name, email), TRUE))
     ELSE /\ tasks' = [tasks EXCEPT ![t] =
                         [op |-> "register_user",
                          user_data |-> UserCreate(name, email)]]
          /\ UNCHANGED <<orders, addresses, products, kafka, now, result,
                         emitted, users, categories, notifications>>

\* POST /api/v1/users/register from the insert on
RegisterUserInsert(t, insertOk) ==
  /\ tasks[t].op = "register_user"
  /\ Len(users) < MaxUsers
  /\ tasks' = [tasks EXCEPT ![t] = Idle]
  /\ users' = IF insertOk
              THEN Append(users, [name |-> tasks[t].user_data.name,
                                  email |-> tasks[t].user_data.email,
                                  is_active |-> TRUE])
              ELSE users
  /\ result' = Response("register_user",
                        IF insertOk THEN "Created" ELSE "Internal",
                        IF insertOk THEN Len(users) + 1 ELSE NoId, <<>>)
  /\ emitted' = <<>>
  /\ UNCHANGED <<orders, addresses, products, kafka, now, categories,
                 notifications>>

\* The user service registering accounts, requests overlapping at their
\* awaits.
NextSignup ==
  \/ \E t \in Tasks, name \in UserNames, email \in RawEmails :
       RegisterUserCheck(t, name, email)
  \/ \E t \in Tasks, insertOk \in BOOLEAN : RegisterUserInsert(t, insertOk)

SpecSignup == Init /\ [][NextSignup]_vars

\* ------------------------------------------------------ product service
\* the identifier the next inserted product is given
NewProductId == "N"

\* the products the requests of the product service name
StockedIds == {"S", "N", "ghost"}
CategoryIds == 0..3
StockChanges == {-2, -1, 1}

\* Product.get and Category.get
ProductGet(prods, product_id) ==
  IF product_id \in DOMAIN prods THEN Found(prods[product_id]) ELSE NoOrder

CategoryGet(cats, category_id) ==
  IF category_id \in DOMAIN cats THEN Found(cats[category_id]) ELSE NoOrder

\* ProductRepository.get_product_by_sku
GetProductBySku(prods, sku) ==
  \E product_id \in DOMAIN prods : prods[product_id].sku = sku

\* what a read of the product service answers
Read(code, body) == [code |-> code, body |-> body]

\* ProductService.get_product_by_id
GetProductByIdOutcome(prods, product_id) ==
  LET product == ProductGet(prods, product_id)
  IN  IF ~product.found \/ ~product.doc.is_active
      THEN Read("NotFound", {})
      ELSE Read("OK", {product_id})

\* ProductService.get_all_products: the repository's default active_only
GetAllProductsOutcome(prods) ==
  Read("OK", {product_id \in DOMAIN prods : prods[product_id].is_active})

\* CategoryService.get_category_by_id
GetCategoryByIdOutcome(cats, category_id) ==
  LET category == CategoryGet(cats, category_id)
  IN  IF ~category.found
      THEN Read("NotFound", {})
      ELSE Read("OK", {category_id})

\* CategoryService.get_all_categories
GetAllCategoriesOutcome(cats, active_only) ==
  Read("OK", {category_id \in DOMAIN cats :
                active_only => cats[category_id].is_active})

\* ProductRepository.delete_product and ProductService.delete_product
DeleteProductOutcome(prods, product_id, saveOk) ==
  LET product == ProductGet(prods, product_id)
  IN  IF ~product.found
      THEN [code |-> "NotFound", products |-> prods]
      ELSE IF ~saveOk
      THEN [code |-> "Internal", products |-> prods]
      ELSE [code |-> "OK",
            products |-> [prods EXCEPT ![product_id].is_active = FALSE]]

\* CategoryRepository.delete_category and CategoryService.delete_category
DeleteCategoryOutcome(cats, category_id, saveOk) ==
  LET category == CategoryGet(cats, category_id)
  IN  IF ~category.found
      THEN [code |-> "NotFound", categories |-> cats]
      ELSE IF ~saveOk
      THEN [code |-> "Internal", categories |-> cats]
      ELSE [code |-> "OK",
            categories |-> [cats EXCEPT ![category_id].is_active = FALSE]]

\* update_stock applying every change it is asked for
UpdateStockDocUnchecked(product, quantity_change) ==
  IF ~product.found \/ product.doc.stock_is_null
  THEN NoOrder
  ELSE LET new_quantity == product.doc.stock_quantity + quantity_change
       IN  Found([product.doc EXCEPT !.stock_quantity = new_quantity,
                                     !.is_available = new_quantity > 0])

\* ProductRepository.update_stock up to its save: the document it is about
\* to write, or None
UpdateStockDoc(product, quantity_change) ==
  IF ~product.found \/ product.doc.stock_is_null
  THEN NoOrder
  ELSE LET new_quantity == product.doc.stock_quantity + quantity_change
       IN  IF new_quantity < 0
           THEN NoOrder
           ELSE Found([product.doc EXCEPT !.stock_quantity = new_quantity,
                                          !.is_available = new_quantity > 0])

\* schemas ProductCreate and ProductUpdate: price gt 0, stock_quantity ge 0
ValidProduct(data) ==
  /\ "price" \in DOMAIN data => data.price > 0
  /\ "stock_quantity" \in DOMAIN data => data.stock_quantity >= 0

\* what create_product is asked to insert
ProductData ==
  {[price |-> 20 * Dollar, stock_quantity |-> 1, sku |-> None,
    category_id |-> NoId],
   [price |-> 20 * Dollar, stock_quantity |-> 0, sku |-> "sku-N",
    category_id |-> 2],
   [price |-> 20 * Dollar, stock_quantity |-> -1, sku |-> None,
    category_id |-> NoId],
   [price |-> 20 * Dollar, stock_quantity |-> 1, sku |-> "sku-A",
    category_id |-> NoId],
   [price |-> 20 * Dollar, stock_quantity |-> 1, sku |-> None,
    category_id |-> 3]}

\* what update_product is asked to change
ProductUpdates ==
  {[stock_quantity |-> 2], [stock_quantity |-> -1], [is_active |-> TRUE],
   [sku |-> "sku-A"], [category_id |-> 2], [category_id |-> 3]}

\* ProductService.create_product up to the insert
CreateProductChecks(prods, cats, product_data) ==
  IF ~ValidProduct(product_data)
  THEN "Validation"
  ELSE IF product_data.sku # None /\ GetProductBySku(prods, product_data.sku)
  THEN "BadRequest"
  ELSE IF /\ product_data.category_id # NoId
          /\ ~CategoryGet(cats, product_data.category_id).found
  THEN "BadRequest"
  ELSE "OK"

\* Product(**product_dict): the document create_product inserts
NewProduct(cats, product_data) ==
  [price |-> product_data.price,
   is_available |-> TRUE,
   stock_quantity |-> product_data.stock_quantity,
   stock_is_null |-> FALSE,
   is_active |-> TRUE,
   sku |-> product_data.sku,
   category_id |-> product_data.category_id,
   category_name |-> IF product_data.category_id = NoId THEN None
                     ELSE cats[product_data.category_id].name]

\* ProductService.update_product up to the repository call
UpdateProductChecks(prods, cats, product_id, update_data) ==
  LET existing_product == ProductGet(prods, product_id)
  IN  IF ~ValidProduct(update_data)
      THEN "Validation"
      ELSE IF ~existing_product.found
      THEN "NotFound"
      ELSE IF /\ "sku" \in DOMAIN update_data
              /\ update_data.sku # existing_product.doc.sku
              /\ GetProductBySku(prods, update_data.sku)
      THEN "BadRequest"
      ELSE IF /\ "category_id" \in DOMAIN update_data
              /\ ~CategoryGet(cats, update_data.category_id).found
      THEN "BadRequest"
      ELSE "OK"

\* ProductRepository.update_product: setattr for every field of update_dict
SetAttrs(cats, product, update_data) ==
  [field \in DOMAIN product |->
     IF field \in DOMAIN update_data THEN update_data[field]
     ELSE IF field = "category_name" /\ "category_id" \in DOMAIN update_data
     THEN cats[update_data.category_id].name
     ELSE product[field]]

\* the product service has answered a request
ProductRespond(op, code, body) ==
  /\ result' = Response(op, code, NoId, body)
  /\ emitted' = <<>>
  /\ UNCHANGED <<orders, addresses, kafka, now, users, notifications>>

\* GET /api/v1/products/{product_id}
GetProduct(product_id) ==
  LET out == GetProductByIdOutcome(products, product_id)
  IN  /\ ProductRespond("get_product_by_id", out.code, out.body)
      /\ UNCHANGED <<products, categories, tasks>>

\* GET /api/v1/products/
GetAllProducts ==
  LET out == GetAllProductsOutcome(products)
  IN  /\ ProductRespond("get_all_products", out.code, out.body)
      /\ UNCHANGED <<products, categories, tasks>>

\* GET /api/v1/categories/{category_id}
GetCategory(category_id) ==
  LET out == GetCategoryByIdOutcome(categories, category_id)
  IN  /\ ProductRespond("get_category_by_id", out.code, out.body)
      /\ UNCHANGED <<products, categories, tasks>>

\* GET /api/v1/categories/
GetAllCategories(active_only) ==
  LET out == GetAllCategoriesOutcome(categories, active_only)
  IN  /\ ProductRespond("get_all_categories", out.code, out.body)
      /\ UNCHANGED <<products, categories, tasks>>

\* DELETE /api/v1/products/{product_id}
DeleteProduct(product_id, saveOk) ==
  LET out == DeleteProductOutcome(products, product_id, saveOk)
  IN  /\ products' = out.products
      /\ ProductRespond("delete_product", out.code, {product_id})
      /\ UNCHANGED <<categories, tasks>>

\* DELETE /api/v1/categories/{category_id}
DeleteCategory(category_id, saveOk) ==
  LET out == DeleteCategoryOutcome(categories, category_id, saveOk)
  IN  /\ categories' = out.categories
      /\ ProductRespond("delete_category", out.code, {category_id})
      /\ UNCHANGED <<products, tasks>>

\* PATCH /api/v1/products/{product_id}/stock, to the await of the save
UpdateStockRead(t, product_id, quantity_change) ==
  /\ tasks[t] = Idle
  /\ LET product == UpdateStockDoc(ProductGet(products, product_id),
                                   quantity_change)
     IN  IF product.found
         THEN /\ product.doc.stock_quantity <= MaxStock
              /\ tasks' = [tasks EXCEPT ![t] =
                             [op |-> "update_stock", product_id |-> product_id,
                              product |-> product.doc]]
              /\ UNCHANGED <<orders, addresses, products, kafka, now, result,
                             emitted, users, categories, notifications>>
         ELSE /\ ProductRespond("update_stock", "BadRequest", {product_id})
              /\ UNCHANGED <<products, categories, tasks>>

\* PATCH /api/v1/products/{product_id}/stock, from the save on
UpdateStockSave(t, saveOk) ==
  /\ tasks[t].op = "update_stock"
  /\ tasks' = [tasks EXCEPT ![t] = Idle]
  /\ IF saveOk
     THEN /\ products' = [products EXCEPT ![tasks[t].product_id] =
                                             tasks[t].product]
          /\ ProductRespond("update_stock", "OK", {tasks[t].product_id})
     ELSE /\ products' = products
          /\ ProductRespond("update_stock", "BadRequest",
                            {tasks[t].product_id})
  /\ UNCHANGED categories

\* POST /api/v1/products/, to the await of the insert
CreateProductBegin(t, product_data) ==
  /\ tasks[t] = Idle
  /\ NewProductId \notin DOMAIN products
  /\ \A u \in Tasks : tasks[u].op # "create_product"
  /\ LET code == CreateProductChecks(products, categories, product_data)
     IN  IF code = "OK"
         THEN /\ tasks' = [tasks EXCEPT ![t] =
                             [op |-> "create_product",
                              product |-> NewProduct(categories,
                                                     product_data)]]
              /\ UNCHANGED <<orders, addresses, products, kafka, now, result,
                             emitted, users, categories, notifications>>
         ELSE /\ ProductRespond("create_product", code, {})
              /\ UNCHANGED <<products, categories, tasks>>

\* POST /api/v1/products/, from the insert on
CreateProductInsert(t, insertOk) ==
  /\ tasks[t].op = "create_product"
  /\ tasks' = [tasks EXCEPT ![t] = Idle]
  /\ IF insertOk
     THEN /\ products' = [product_id \in DOMAIN products \cup {NewProductId}
                            |-> IF product_id = NewProductId
                                THEN tasks[t].product
                                ELSE products[product_id]]
          /\ ProductRespond("create_product", "Created", {NewProductId})
     ELSE /\ products' = products
          /\ ProductRespond("create_product", "Internal", {})
  /\ UNCHANGED categories

\* PUT /api/v1/products/{product_id}, to the repository call
UpdateProductBegin(t, product_id, update_data) ==
  /\ tasks[t] = Idle
  /\ LET code == UpdateProductChecks(products, categories, product_id,
                                     update_data)
     IN  IF code = "OK"
         THEN /\ tasks' = [tasks EXCEPT ![t] =
                             [op |-> "update_product", step |-> "get",
                              product_id |-> product_id,
                              update_data |-> update_data]]
              /\ UNCHANGED <<orders, addresses, products, kafka, now, result,
                             emitted, users, categories, notifications>>
         ELSE /\ ProductRespond("update_product", code, {product_id})
              /\ UNCHANGED <<products, categories, tasks>>

\* ProductRepository.update_product, to the await of the save
UpdateProductRead(t) ==
  /\ tasks[t].op = "update_product"
  /\ tasks[t].step = "get"
  /\ LET product == ProductGet(products, tasks[t].product_id)
     IN  IF product.found
         THEN /\ tasks' = [tasks EXCEPT ![t] =
                             [op |-> "update_product", step |-> "save",
                              product_id |-> tasks[t].product_id,
                              product |-> SetAttrs(categories, product.doc,
                                                   tasks[t].update_data)]]
              /\ UNCHANGED <<orders, addresses, products, kafka, now, result,
                             emitted, users, categories, notifications>>
         ELSE /\ tasks' = [tasks EXCEPT ![t] = Idle]
              /\ ProductRespond("update_product", "Internal",
                                {tasks[t].product_id})
              /\ UNCHANGED <<products, categories>>

\* ProductRepository.update_product, from the save on
UpdateProductSave(t, saveOk) ==
  /\ tasks[t].op = "update_product"
  /\ tasks[t].step = "save"
  /\ tasks' = [tasks EXCEPT ![t] = Idle]
  /\ IF saveOk
     THEN /\ products' = [products EXCEPT ![tasks[t].product_id] =
                                             tasks[t].product]
          /\ ProductRespond("update_product", "OK", {tasks[t].product_id})
     ELSE /\ products' = products
          /\ ProductRespond("update_product", "Internal",
                            {tasks[t].product_id})
  /\ UNCHANGED categories

\* update_stock requests
ChangeStock(ts, product_ids, quantity_changes) ==
  \/ \E t \in ts, product_id \in product_ids,
        quantity_change \in quantity_changes :
       UpdateStockRead(t, product_id, quantity_change)
  \/ \E t \in ts, saveOk \in BOOLEAN : UpdateStockSave(t, saveOk)

\* create_product requests
CreateProduct(ts, products_data) ==
  \/ \E t \in ts, product_data \in products_data :
       CreateProductBegin(t, product_data)
  \/ \E t \in ts, insertOk \in BOOLEAN : CreateProductInsert(t, insertOk)

\* update_product requests
UpdateProduct(ts, product_ids, updates) ==
  \/ \E t \in ts, product_id \in product_ids, update_data \in updates :
       UpdateProductBegin(t, product_id, update_data)
  \/ \E t \in ts : UpdateProductRead(t)
  \/ \E t \in ts, saveOk \in BOOLEAN : UpdateProductSave(t, saveOk)

\* The product service changing stock and products, requests overlapping
\* at their awaits.
NextStock ==
  \/ ChangeStock(Tasks, StockedIds, StockChanges)
  \/ CreateProduct(Tasks, {product_data \in ProductData :
                             product_data.sku = None
                             /\ product_data.category_id = NoId})
  \/ UpdateProduct(Tasks, {"S"},
                   {[stock_quantity |-> 2], [stock_quantity |-> -1],
                    [is_active |-> TRUE]})

SpecStock == Init /\ [][NextStock]_vars

\* The product service retiring products and categories and serving reads,
\* one request at a time.
NextCatalogue ==
  \/ \E product_id \in StockedIds : GetProduct(product_id)
  \/ GetAllProducts
  \/ \E category_id \in CategoryIds : GetCategory(category_id)
  \/ \E active_only \in BOOLEAN : GetAllCategories(active_only)
  \/ \E product_id \in StockedIds, saveOk \in BOOLEAN :
       DeleteProduct(product_id, saveOk)
  \/ \E category_id \in CategoryIds, saveOk \in BOOLEAN :
       DeleteCategory(category_id, saveOk)
  \/ CreateProduct({1}, {product_data \in ProductData :
                           product_data.stock_quantity = 1})
  \/ UpdateProduct({1}, StockedIds,
                   {[is_active |-> TRUE], [sku |-> "sku-A"],
                    [category_id |-> 3]})

SpecCatalogue == Init /\ [][NextCatalogue]_vars

\* ------------------------------------- user and product event emitters
\* send_event of the user and the product service: the message handed to
\* the producer carries the topic as the event_type of its envelope and
\* the event, with its own event_type, as data; every failure is logged
ServiceSendEvent(bus, service, topic, event_data, sendOk) ==
  IF ~bus.kafka_enabled \/ bus.producer = None \/ ~sendOk
  THEN <<>>
  ELSE <<[topic |-> topic,
          value |-> [service |-> service, event_type |-> topic,
                     data |-> event_data]]>>

\* publish_user_registered_event
PublishUserRegisteredEvent(bus, user_data, sendOk) ==
  ServiceSendEvent(bus, "user-service", "user-events",
                   [event_type |-> "user.registered",
                    email |-> user_data.email, name |-> user_data.name],
                   sendOk)

\* publish_product_stock_updated_event
PublishProductStockUpdatedEvent(bus, product_data, sendOk) ==
  ServiceSendEvent(bus, "product-service", "product-events",
                   [event_type |-> "product.stock_updated",
                    product_id |-> product_data.id,
                    stock_quantity |-> product_data.stock_quantity],
                   sendOk)

\* ------------------------------------------------- notification service
LowStockThreshold == 10
NotificationTypes == {"email", "sms", "push", "in_app"}

\* _send_email_notification: the status is set to sent, then to delivered,
\* by two updates each of which answers None when it fails
SentStatus(sentOk, deliveredOk) ==
  IF deliveredOk THEN "delivered" ELSE IF sentOk THEN "sent" ELSE "pending"

\* NotificationService.create_notification: the collection it leaves
CreateNotification(notifs, notification_data, insertOk, sentOk, deliveredOk) ==
  IF notification_data.type \notin NotificationTypes \/ ~insertOk
  THEN notifs
  ELSE Append(notifs, [notification_data EXCEPT
                         !.status = SentStatus(sentOk, deliveredOk)])

\* the notification_data of the two handlers, as inserted
NotificationData(recipient, subject, event_type, service, priority) ==
  [type |-> "email", recipient |-> recipient, subject |-> subject,
   status |-> "pending", event_type |-> event_type,
   source_service |-> service, priority |-> priority]

\* _handle_user_registered
HandleUserRegistered(notifs, event_data, service, insertOk, sentOk, deliveredOk) ==
  IF Truthy(event_data.email)
  THEN CreateNotification(notifs,
         NotificationData(event_data.email, "Welcome to E-commerce Platform!",
                          "user.registered", service, 3),
         insertOk, sentOk, deliveredOk)
  ELSE notifs

\* _handle_product_stock_updated
HandleProductStockUpdated(notifs, event_data, service, insertOk, sentOk, deliveredOk) ==
  IF event_data.stock_quantity < LowStockThreshold
  THEN CreateNotification(notifs,
         NotificationData("admin@ecommerce.com", "Low Stock Alert",
                          "product.stock_updated", service, 4),
         insertOk, sentOk, deliveredOk)
  ELSE notifs

\* _handle_user_event
HandleUserEvent(notifs, event_type, event_data, service, insertOk, sentOk, deliveredOk) ==
  IF event_type = "user.registered"
  THEN HandleUserRegistered(notifs, event_data, service, insertOk, sentOk,
                            deliveredOk)
  ELSE notifs

\* _handle_product_event
HandleProductEvent(notifs, event_type, event_data, service, insertOk, sentOk, deliveredOk) ==
  IF event_type = "product.stock_updated"
  THEN HandleProductStockUpdated(notifs, event_data, service, insertOk,
                                 sentOk, deliveredOk)
  ELSE notifs

\* KafkaConsumer._process_message
ProcessMessage(notifs, message, insertOk, sentOk, deliveredOk) ==
  LET service == message.value.service
      event_type == message.value.event_type
      event_data == message.value.data
  IN  IF message.topic = "user-events"
      THEN HandleUserEvent(notifs, event_type, event_data, service, insertOk,
                           sentOk, deliveredOk)
      ELSE IF message.topic = "product-events"
      THEN HandleProductEvent(notifs, event_type, event_data, service,
                              insertOk, sentOk, deliveredOk)
      ELSE notifs

\* the accounts and the stock levels events are published about
RegisteredUsers ==
  {[id |-> "u1", email |-> "ann@example.com", name |-> "Ann"],
   [id |-> "u2", email |-> "bob@example.com", name |-> "Bob"]}

StockReports ==
  {[id |-> "S", stock_quantity |-> LowStockThreshold - 1],
   [id |-> "S", stock_quantity |-> LowStockThreshold]}

\* messages of other producers on the two topics, the type of the event in
\* the envelope
OtherMessages ==
  {[topic |-> "user-events",
    value |-> [service |-> "tester", event_type |-> "user.registered",
               data |-> [event_type |-> "user.registered", email |-> email,
                         name |-> "Ann"]]] :
     email \in {"ann@example.com", None}}
  \cup
  {[topic |-> "user-events",
    value |-> [service |-> "tester", event_type |-> "user.login",
               data |-> [event_type |-> "user.login",
                         email |-> "ann@example.com", name |-> "Ann"]]]}
  \cup
  {[topic |-> "product-events",
    value |-> [service |-> "tester", event_type |-> "product.stock_updated",
               data |-> [event_type |-> "product.stock_updated",
                         product_id |-> report.id,
                         stock_quantity |-> report.stock_quantity]]] :
     report \in StockReports}

\* a caller of publish_user_registered_event
PublishUserRegistered(user_data, sendOk) ==
  /\ kafka.started
  /\ emitted' = PublishUserRegisteredEvent(kafka, user_data, sendOk)
  /\ result' = Response("publish_user_registered_event", None, NoId, <<>>)
  /\ UNCHANGED <<orders, addresses, products, kafka, now, users, categories,
                 tasks, notifications>>

\* a caller of publish_product_stock_updated_event
PublishProductStockUpdated(product_data, sendOk) ==
  /\ kafka.started
  /\ emitted' = PublishProductStockUpdatedEvent(kafka, product_data, sendOk)
  /\ result' = Response("publish_product_stock_updated_event", None, NoId,
                        <<>>)
  /\ UNCHANGED <<orders, addresses, products, kafka, now, users, categories,
                 tasks, notifications>>

\* the consumer hands message to _process_message
Deliver(message, insertOk, sentOk, deliveredOk) ==
  LET notifs == ProcessMessage(notifications, message, insertOk, sentOk,
                               deliveredOk)
  IN  /\ Len(notifs) <= MaxNotifications
      /\ notifications' = notifs
      /\ result' = Response("process_message",
                            IF notifs = notifications THEN None ELSE "Created",
                            NoId, <<message>>)
      /\ UNCHANGED <<orders, addresses, products, kafka, now, emitted, users,
                     categories, tasks>>

\* The emitters of the user and the product service publishing, and the
\* dispatcher of the notification service consuming at least once.
NextNotify ==
  \/ Boot(BOOLEAN)
  \/ \E user_data \in RegisteredUsers, sendOk \in BOOLEAN :
       PublishUserRegistered(user_data, sendOk)
  \/ \E product_data \in StockReports, sendOk \in BOOLEAN :
       PublishProductStockUpdated(product_data, sendOk)
  \/ \E i \in DOMAIN emitted, insertOk \in BOOLEAN, sentOk \in BOOLEAN,
        deliveredOk \in BOOLEAN :
       Deliver(emitted[i], insertOk, sentOk, deliveredOk)
  \/ \E message \in OtherMessages, insertOk \in BOOLEAN, sentOk \in BOOLEAN,
        deliveredOk \in BOOLEAN :
       Deliver(message, insertOk, sentOk, deliveredOk)

SpecNotify == Init /\ [][NextNotify]_vars

\* ------------------------------------------ notification dispatch and retry
DefaultMaxRetries == 3   \* Notification.max_retries
SweepMaxRetries == 3     \* retry_failed_notifications(max_retries)
RetryPageLimit == 100    \* get_notifications(limit) of the retry sweep

\* Notification(**notification_data): the defaults of the document
Notification(type, max_retries) ==
  [type |-> type, status |-> "pending", sent_at |-> NoTime,
   delivered_at |-> NoTime, retry_count |-> 0, max_retries |-> max_retries]

\* which of the repository updates of one dispatch succeed: a failed
\* update_notification answers None, which no caller looks at
UpdateOks == [sent : BOOLEAN, delivered : BOOLEAN, failed : BOOLEAN, counted : BOOLEAN]
AllOk == [sent |-> TRUE, delivered |-> TRUE, failed |-> TRUE, counted |-> TRUE]

\* update_notification_status on the stored document doc
UpdateNotificationStatus(doc, status, delivered_at, ok) ==
  IF ~ok THEN doc
  ELSE [doc EXCEPT !.status = status,
                   !.sent_at = IF status = "sent" THEN now ELSE @,
                   !.delivered_at = IF status = "delivered" /\ delivered_at # NoTime
                                    THEN delivered_at ELSE @]

\* _send_email_notification
SendEmailNotification(doc, oks) ==
  UpdateNotificationStatus(
    UpdateNotificationStatus(doc, "sent", NoTime, oks.sent),
    "delivered", now, oks.delivered)

\* _send_sms_notification, _send_push_notification, _send_in_app_notification
SendOtherNotification(doc, oks) ==
  UpdateNotificationStatus(doc, "sent", NoTime, oks.sent)

\* the except clause of _send_notification: the status is set to failed,
\* then retry_count to the count of the notification in hand plus one
MarkFailed(doc, oks) ==
  LET failed == UpdateNotificationStatus(doc, "failed", NoTime, oks.failed)
  IN  IF oks.counted THEN [failed EXCEPT !.retry_count = doc.retry_count + 1]
      ELSE failed

\* _send_notification on the stored document doc: the document it leaves
\* and whether it raises; raises says that the channel fails before the
\* notification is marked sent
SendNotification(doc, raises, oks) ==
  IF raises THEN [doc |-> MarkFailed(doc, oks), raised |-> TRUE]
  ELSE IF doc.type = "email"
  THEN [doc |-> SendEmailNotification(doc, oks), raised |-> FALSE]
  ELSE [doc |-> SendOtherNotification(doc, oks), raised |-> FALSE]

\* NotificationRepository.get_notifications(status=..., limit=...): the
\* notifications of that status, the newest first (sort(-created_at)), at
\* most limit of them
GetNotifications(notifs, status, limit) ==
  LET newest_first == [k \in 1..Len(notifs) |-> Len(notifs) + 1 - k]
      found == SelectSeq(newest_first, LAMBDA i : notifs[i].status = status)
  IN  SubSeq(found, 1, IF Len(found) < limit THEN Len(found) ELSE limit)

\* retry_failed_notifications: the test that lets a notification be retried
BelowBound(doc, max_retries) == doc.retry_count < max_retries

\* the loop of retry_failed_notifications over the page, the senders of
\* the notifications in raising raising: the collection it leaves and the
\* number it returns
RECURSIVE RetryLoop(_, _, _, _, _)
RetryLoop(notifs, page, max_retries, raising, count) ==
  IF page = <<>> THEN [notifications |-> notifs, retry_count |-> count]
  ELSE LET i == Head(page)
           sent == SendNotification(notifs[i], i \in raising, AllOk)
       IN  IF BelowBound(notifs[i], max_retries)
           THEN RetryLoop([notifs EXCEPT ![i] = sent.doc], Tail(page),
                          max_retries, raising,
                          IF sent.raised THEN count ELSE count + 1)
           ELSE RetryLoop(notifs, Tail(page), max_retries, raising, count)

\* NotificationService.retry_failed_notifications
RetryFailedNotificationsOutcome(notifs, max_retries, raising) ==
  RetryLoop(notifs, GetNotifications(notifs, "failed", RetryPageLimit),
            max_retries, raising, 0)

\* NotificationService.create_notification with all there is to a dispatch
CreateNotificationOutcome(notifs, type, max_retries, insertOk, raises, oks) ==
  IF type \notin NotificationTypes \/ ~insertOk
  THEN [notifications |-> notifs, raised |-> TRUE]
  ELSE LET sent == SendNotification(Notification(type, max_retries), raises, oks)
       IN  [notifications |-> Append(notifs, sent.doc), raised |-> sent.raised]

\* a caller of create_notification
CreateNotificationRequest(limit, type, max_retries, insertOk, raises, oks) ==
  LET out == CreateNotificationOutcome(notifications, type, max_retries,
                                       insertOk, raises, oks)
  IN  /\ Len(notifications) < limit
      /\ notifications' = out.notifications
      /\ result' = Response("create_notification",
                            IF out.raised THEN "Raised" ELSE "Created",
                            Len(out.notifications), <<>>)
      /\ UNCHANGED <<orders, addresses, products, kafka, now, emitted, users,
                     categories, tasks>>

\* POST /api/v1/notifications/retry-failed
RetryFailedNotifications(raising) ==
  LET out == RetryFailedNotificationsOutcome(notifications, SweepMaxRetries,
                                             raising)
  IN  /\ notifications' = out.notifications
      /\ result' = Response("retry_failed_notifications", "OK", NoId,
                            <<out.retry_count>>)
      /\ UNCHANGED <<orders, addresses, products, kafka, now, emitted, users,
                     categories, tasks>>

\* The notification service creating notifications of every type and
\* sweeping the failed ones, channels and updates failing at will.
NextDispatch ==
  \/ \E type \in NotificationTypes \cup {"fax"},
        max_retries \in {1, DefaultMaxRetries}, insertOk \in BOOLEAN,
        raises \in BOOLEAN, oks \in UpdateOks :
       CreateNotificationRequest(MaxNotifications, type, max_retries,
                                 insertOk, raises, oks)
  \/ \E raising \in SUBSET (1..MaxNotifications) :
       RetryFailedNotifications(raising)

SpecDispatch == Init /\ [][NextDispatch]_vars

\* The notification service with a backlog of failed notifications: every
\* update succeeds, the channel fails at every creation and has recovered
\* at every sweep.
NextBacklog ==
  \/ CreateNotificationRequest(MaxBacklog, "email", DefaultMaxRetries, TRUE,
                               TRUE, AllOk)
  \/ RetryFailedNotifications({})

SpecBacklog == InitEnabled /\ [][NextBacklog]_vars

\* ------------------------------------------------------------ properties
Abs(x) == IF x < 0 THEN -x ELSE x

\* y is an amount of whole cents, and none is nearer to num / den
IsRounded2(y, num, den) ==
  /\ y % Cent = 0
  /\ 2 * Abs(den * y - num) <= den * Cent

RECURSIVE SumOfProducts(_)
SumOfProducts(items) ==
  IF items = <<>> THEN 0
  ELSE Head(items).unit_price * Head(items).quantity
         + SumOfProducts(Tail(items))

\* the amounts create_order derives from a subtotal
AmountsFollow(order) ==
  /\ IsRounded2(order.tax_amount, 8 * order.subtotal, 100)
  /\ order.shipping_cost = IF order.subtotal < 100 * Dollar
                           THEN 10 * Dollar ELSE 0
  /\ order.discount_amount = 0
  /\ IsRounded2(order.total_amount,
                order.subtotal + order.tax_amount + order.shipping_cost, 1)

\* the lines of the order carry the catalogue's prices
PricedFromCatalogue(order) ==
  \A i \in DOMAIN order.items :
    order.items[i].unit_price = products[order.items[i].product_id].price

RECURSIVE SumOfLineTotals(_)
SumOfLineTotals(items) ==
  IF items = <<>> THEN 0
  ELSE Head(items).total_price + SumOfLineTotals(Tail(items))

\* every line total is unit_price x quantity rounded to 2 decimals
LineTotalsRounded(order) ==
  \A i \in DOMAIN order.items :
    IsRounded2(order.items[i].total_price,
               order.items[i].unit_price * order.items[i].quantity, 1)

C2_TotalAlwaysDerived ==
  \A order_id \in DOMAIN orders :
    LET order == orders[order_id]
    IN  /\ order.total_amount >= 0
        /\ order.total_amount =
             Max(order.subtotal + order.tax_amount + order.shipping_cost
                   - order.discount_amount, 0)

\* the orders of the store are left as they are by the outcome out, and
\* out publishes no event
NothingHappened(out) ==
  /\ out.orders = orders
  /\ out.addresses = addresses
  /\ out.emitted = <<>>

\* a credential the user service resolves to user_id
CredentialOf(user_id) == CHOOSE token \in Tokens : TokenOwner[token] = user_id

\* C3: cancel_order by the owner of an order fails with BadRequest and
\* leaves the order unchanged when its status is shipped, delivered,
\* cancelled or refunded; when the status is pending, confirmed or
\* processing it succeeds, the status becomes cancelled and a note
\* containing 'Cancelled by customer' is appended to the notes.
C3_CancelByOwner ==
  \A order_id \in DOMAIN orders, sendOk \in BOOLEAN :
    LET order == orders[order_id]
        out == CancelOrderOutcome(kafka, order_id,
                                  CredentialOf(order.user_id), TRUE, sendOk)
    IN  IF order.status \in {"shipped", "delivered", "cancelled", "refunded"}
        THEN out.code = "BadRequest" /\ NothingHappened(out)
        ELSE /\ order.status \in {"pending", "confirmed", "processing"}
             /\ out.code = "OK"
             /\ out.orders[order_id].status = "cancelled"
             /\ Len(out.orders[order_id].notes) = Len(order.notes) + 1
             /\ SubSeq(out.orders[order_id].notes, 1, Len(order.notes))
                  = order.notes
             /\ out.orders[order_id].notes[Len(order.notes) + 1].text
                  = "Cancelled by customer"

\* the owner has cancelled the order and has been refused a second
\* cancellation
C3_Witness ==
  /\ result.op = "cancel_order" /\ result.code = "BadRequest"
  /\ orders[result.order_id].status = "cancelled"
  /\ \E i \in DOMAIN orders[result.order_id].notes :
       orders[result.order_id].notes[i].text = "Cancelled by customer"

\* C4: cancel_order fails with the first of: Unauthorized when the
\* credential does not resolve, NotFound when the order does not exist,
\* Forbidden when the caller is not the owner (cancellable or not),
\* BadRequest when the order is not cancellable; every failure leaves the
\* store unchanged and publishes no event.
C4_CancelFailureOrder ==
  kafka.started =>
  \A order_id \in RequestIds, token \in Tokens, callOk \in BOOLEAN,
     sendOk \in BOOLEAN :
    LET out == CancelOrderOutcome(kafka, order_id, token, callOk, sendOk)
        resolved == callOk /\ token # "expired"
        exists == order_id \in DOMAIN orders
        owned == orders[order_id].user_id = TokenOwner[token]
        cancellable ==
          orders[order_id].status \in {"pending", "confirmed", "processing"}
    IN  /\ out.code = IF ~resolved THEN "Unauthorized"
                      ELSE IF ~exists THEN "NotFound"
                      ELSE IF ~owned THEN "Forbidden"
                      ELSE IF ~cancellable THEN "BadRequest"
                      ELSE "OK"
        /\ out.code # "OK" => NothingHappened(out)

\* a caller who is not the owner has been refused an order that is not
\* cancellable either
C4_Witness ==
  /\ result.op = "cancel_order" /\ result.code = "Forbidden"
  /\ orders[result.order_id].status = "shipped"
  /\ emitted = <<>>

\* C5: a milestone timestamp (confirmed_at, shipped_at, delivered_at) of a
\* stored order that is set is not changed by any later step.
C5_MilestonesKept ==
  [][\A order_id \in DOMAIN orders :
       /\ orders[order_id].confirmed_at # NoTime
            => orders'[order_id].confirmed_at = orders[order_id].confirmed_at
       /\ orders[order_id].shipped_at # NoTime
            => orders'[order_id].shipped_at = orders[order_id].shipped_at
       /\ orders[order_id].delivered_at # NoTime
            => orders'[order_id].delivered_at = orders[order_id].delivered_at
    ]_vars

\* an order confirmed at one instant, shipped at a later one and then set
\* to confirmed again keeps its first confirmed_at
C5_Witness ==
  /\ result.op = "update_order_status" /\ result.code = "OK"
  /\ orders[result.order_id].status = "confirmed"
  /\ orders[result.order_id].shipped_at = 2
  /\ orders[result.order_id].confirmed_at = 1

\* a producer that is enabled, started and reaches the broker
Healthy ==
  [kafka_enabled |-> TRUE, producer |-> "AIOKafkaProducer", started |-> TRUE]

\* the outcome out answers and writes what the outcome ref does, and
\* publishes nothing when quiet
SameBut(out, ref, quiet) ==
  /\ out.code = ref.code
  /\ out.order_id = ref.order_id
  /\ out.detail = ref.detail
  /\ out.orders = ref.orders
  /\ out.addresses = ref.addresses
  /\ quiet => out.emitted = <<>>

\* C8: with the transport disabled, the producer not available or the
\* publish failing, create_order, setStatus, setPaymentStatus and cancel
\* publish nothing, raise nothing, answer as they do when the publish
\* succeeds and leave the same orders stored.
C8_EmissionNeverChangesOutcome ==
  kafka.started =>
  \A sendOk \in BOOLEAN :
    LET quiet == ~kafka.kafka_enabled \/ kafka.producer = None \/ ~sendOk
    IN  /\ \A token \in Tokens, callOk \in BOOLEAN,
              items \in SampleRequests, insertOk \in BOOLEAN :
             SameBut(CreateOrderOutcome(kafka, token, callOk, items, None,
                                        insertOk, sendOk),
                     CreateOrderOutcome(Healthy, token, callOk, items, None,
                                        insertOk, TRUE),
                     quiet)
        /\ \A order_id \in RequestIds, status \in OrderStatuses :
             SameBut(SetStatusOutcome(kafka, order_id, status, None, sendOk),
                     SetStatusOutcome(Healthy, order_id, status, None, TRUE),
                     quiet)
        /\ \A order_id \in RequestIds, payment_status \in PaymentStatuses :
             SameBut(SetPaymentStatusOutcome(kafka, order_id, payment_status,
                                             None, sendOk),
                     SetPaymentStatusOutcome(Healthy, order_id,
                                             payment_status, None, TRUE),
                     quiet)
        /\ \A order_id \in RequestIds, token \in Tokens, callOk \in BOOLEAN :
             SameBut(CancelOrderOutcome(kafka, order_id, token, callOk,
                                        sendOk),
                     CancelOrderOutcome(Healthy, order_id, token, callOk,
                                        TRUE),
                     quiet)

\* the producer failed to start, and an order has been confirmed all the
\* same, with no event
C8_Witness ==
  /\ kafka.kafka_enabled /\ kafka.started /\ kafka.producer = None
  /\ result.op = "update_order_status" /\ result.code = "OK"
  /\ orders[result.order_id].status = "confirmed"
  /\ emitted = <<>>

\* C9: setStatus validates no transition: for every stored order, whatever
\* its status, and every target status the request succeeds and the
\* stored status is the target.
C9_AnyTransition ==
  \A order_id \in DOMAIN orders, status \in OrderStatuses,
     notes \in NoteTexts, sendOk \in BOOLEAN :
    LET out == SetStatusOutcome(kafka, order_id, status, notes, sendOk)
    IN  /\ out.code = "OK"
        /\ out.orders[order_id].status = status

\* an order that was delivered has been set back to pending
C9_Witness ==
  /\ result.op = "update_order_status" /\ result.code = "OK"
  /\ orders[result.order_id].status = "pending"
  /\ orders[result.order_id].delivered_at # NoTime

\* C10: for an identifier that is stored nowhere, well-formed or not,
\* setStatus and setPaymentStatus answer NotFound, leave the store
\* unchanged and publish no event.
C10_UnknownIdIsNotFound ==
  kafka.started =>
  \A order_id \in RequestIds \ DOMAIN orders, sendOk \in BOOLEAN :
    /\ \A status \in OrderStatuses, notes \in NoteTexts :
         LET out == SetStatusOutcome(kafka, order_id, status, notes, sendOk)
         IN  out.code = "NotFound" /\ NothingHappened(out)
    /\ \A payment_status \in PaymentStatuses, txn \in {None, "txn-1"} :
         LET out == SetPaymentStatusOutcome(kafka, order_id, payment_status,
                                            txn, sendOk)
         IN  out.code = "NotFound" /\ NothingHappened(out)

\* a payment update for a string that is no identifier has been answered
\* NotFound while an order is stored and the producer runs
C10_Witness ==
  /\ result.op = "update_payment_status" /\ result.code = "NotFound"
  /\ result.order_id \notin WellFormedIds
  /\ orders # <<>>
  /\ kafka.producer # None
  /\ emitted = <<>>

\* the credential is resolved by the user service
Resolved(token, callOk) == callOk /\ token # "expired"

\* the reasons for which the product service refuses a line
Reasons(line) ==
  IF line.product_id \notin DOMAIN products THEN {"Product not found"}
  ELSE LET product == products[line.product_id]
       IN  (IF ~product.is_available THEN {"Product not available"} ELSE {})
           \cup (IF product.stock_is_null THEN {"Service error"} ELSE {})
           \cup (IF ~product.stock_is_null
                    /\ product.stock_quantity < line.quantity
                 THEN {"Insufficient stock"} ELSE {})

\* C6: a create_order request of an identified caller with a line that is
\* refused (product not found, not available, insufficient stock, service
\* error) is answered BadRequest with a message that lists every refused
\* line with its reason; no order and no address is stored, no event is
\* published.
C6_FailedReservation ==
  kafka.started =>
  \A token \in Tokens, callOk \in BOOLEAN :
    Resolved(token, callOk) =>
      \A items \in Requests :
        LET failing == {i \in DOMAIN items : Reasons(items[i]) # {}}
        IN  failing # {} =>
              \A notes \in CreateNotes, insertOk \in BOOLEAN,
                 sendOk \in BOOLEAN :
                LET out == CreateOrderOutcome(kafka, token, callOk, items,
                                              notes, insertOk, sendOk)
                IN  /\ out.code = "BadRequest"
                    /\ NothingHappened(out)
                    /\ Len(out.detail) = Cardinality(failing)
                    /\ \A i \in failing :
                         \E j \in DOMAIN out.detail :
                           /\ out.detail[j].product_id = items[i].product_id
                           /\ out.detail[j].reason \in Reasons(items[i])

\* a request whose two lines are refused for different reasons has been
\* answered with both, while the producer runs
C6_Witness ==
  /\ result.op = "create_order" /\ result.code = "BadRequest"
  /\ Len(result.detail) = 2
  /\ result.detail[1].reason # result.detail[2].reason
  /\ kafka.producer # None
  /\ orders = <<>> /\ addresses = {} /\ emitted = <<>>

\* C7: a create_order request whose credential the user service does not
\* resolve is answered Unauthorized after one call to the user service
\* and none to the product service; nothing is stored or published.
C7_UnresolvedCredential ==
  kafka.started =>
  \A token \in Tokens, callOk \in BOOLEAN :
    ~Resolved(token, callOk) =>
      \A items \in Requests, notes \in CreateNotes, insertOk \in BOOLEAN,
         sendOk \in BOOLEAN :
        LET out == CreateOrderOutcome(kafka, token, callOk, items, notes,
                                      insertOk, sendOk)
        IN  /\ out.code = "Unauthorized"
            /\ out.identity_calls = 1
            /\ out.product_calls = 0
            /\ NothingHappened(out)

\* a request has been answered Unauthorized while the producer runs
C7_Witness ==
  /\ result.op = "create_order" /\ result.code = "Unauthorized"
  /\ kafka.producer # None
  /\ orders = <<>> /\ addresses = {} /\ emitted = <<>>

\* the events a request publishes on order-events: one of the type for
\* the order when the producer runs and the send succeeds, none for no type
Published(type, order_id, sendOk) ==
  IF type # "nothing" /\ kafka.kafka_enabled /\ kafka.producer # None /\ sendOk
  THEN <<[topic |-> "order-events", service |-> "order-service",
          event_type |-> "order-events", data_event_type |-> type,
          key |-> order_id]>>
  ELSE <<>>

\* C11: a lifecycle operation publishes at most one event, of the type its
\* new value determines, and only together with the persisted change:
\* setStatus order.confirmed / order.cancelled / order.shipped /
\* order.delivered for the target of that name and nothing for pending,
\* processing, refunded; setPaymentStatus order.payment_completed for
\* paid, order.payment_failed for failed, nothing for pending, refunded;
\* a successful cancel exactly one order.cancelled; a request that fails
\* publishes nothing.
C11_EventPerChange ==
  kafka.started =>
  \A order_id \in RequestIds, sendOk \in BOOLEAN :
    /\ \A status \in OrderStatuses, notes \in NoteTexts :
         LET out == SetStatusOutcome(kafka, order_id, status, notes, sendOk)
             type == CASE status = "confirmed" -> "order.confirmed"
                       [] status = "cancelled" -> "order.cancelled"
                       [] status = "shipped" -> "order.shipped"
                       [] status = "delivered" -> "order.delivered"
                       [] status \in {"pending", "processing", "refunded"}
                            -> "nothing"
         IN  IF out.code = "OK"
             THEN /\ out.orders[order_id].status = status
                  /\ out.emitted = Published(type, order_id, sendOk)
             ELSE out.emitted = <<>>
    /\ \A payment_status \in PaymentStatuses, txn \in {None, "txn-1"} :
         LET out == SetPaymentStatusOutcome(kafka, order_id, payment_status,
                                            txn, sendOk)
             type == CASE payment_status = "paid" -> "order.payment_completed"
                       [] payment_status = "failed" -> "order.payment_failed"
                       [] payment_status \in {"pending", "refunded"}
                            -> "nothing"
         IN  IF out.code = "OK"
             THEN /\ out.orders[order_id].payment_status = payment_status
                  /\ out.emitted = Published(type, order_id, sendOk)
             ELSE out.emitted = <<>>
    /\ \A token \in Tokens, callOk \in BOOLEAN :
         LET out == CancelOrderOutcome(kafka, order_id, token, callOk, sendOk)
         IN  IF out.code = "OK"
             THEN /\ out.orders[order_id].status = "cancelled"
                  /\ out.emitted
                       = Published("order.cancelled", order_id, sendOk)
             ELSE out.emitted = <<>>

\* a cancellation has succeeded and has published its one event
C11_Witness ==
  /\ result.op = "cancel_order" /\ result.code = "OK"
  /\ orders[result.order_id].status = "cancelled"
  /\ Len(emitted) = 1
  /\ emitted[1].data_event_type = "order.cancelled"
  /\ emitted[1].key = result.order_id

\* C12: no step removes an order from the store; delete_order on an order
\* that is pending, confirmed or processing sets its status to cancelled
\* and answers True, on any other order and on an absent one it changes
\* nothing and answers False.
C12_OrdersNeverRemoved ==
  [][/\ DOMAIN orders \subseteq DOMAIN orders'
     /\ result'.op = "delete_order" =>
          LET order_id == result'.order_id
          IN  IF order_id \in DOMAIN orders
                 /\ orders[order_id].status
                      \in {"pending", "confirmed", "processing"}
              THEN /\ result'.code = "True"
                   /\ orders'[order_id].status = "cancelled"
                   /\ \A other \in DOMAIN orders \ {order_id} :
                        orders'[other] = orders[other]
              ELSE /\ result'.code = "False"
                   /\ orders' = orders
    ]_vars

\* delete_order has answered True and the order is still stored, cancelled
C12_Witness ==
  /\ result.op = "delete_order" /\ result.code = "True"
  /\ result.order_id \in DOMAIN orders
  /\ orders[result.order_id].status = "cancelled"

\* C18: create_order writes nothing to the inventory: whatever the request
\* and however it ends, every product has the stock_quantity and the
\* availability it had before; lines that reserved while another line of
\* the request failed are not released, as nothing was taken.
C18_InventoryUntouched ==
  kafka.started =>
  \A token \in Tokens, callOk \in BOOLEAN, items \in Requests,
     notes \in CreateNotes, insertOk \in BOOLEAN, sendOk \in BOOLEAN :
    LET out == CreateOrderOutcome(kafka, token, callOk, items, notes,
                                  insertOk, sendOk)
    IN  /\ DOMAIN out.products = DOMAIN products
        /\ \A product_id \in DOMAIN products :
             /\ out.products[product_id].stock_quantity
                  = products[product_id].stock_quantity
             /\ out.products[product_id].is_available
                  = products[product_id].is_available

\* an order of two lines has been created and every product has the stock
\* it started with
C18_Witness ==
  /\ result.op = "create_order" /\ result.code = "Created"
  /\ Len(orders[result.order_id].items) = 2
  /\ \A product_id \in DOMAIN products :
       products[product_id].stock_quantity
         = Catalogue[product_id].stock_quantity

\* new_notes is old_notes followed by one line stamped now with the text
Appended(old_notes, new_notes, text) ==
  /\ Len(new_notes) = Len(old_notes) + 1
  /\ \A i \in DOMAIN old_notes : new_notes[i] = old_notes[i]
  /\ new_notes[Len(new_notes)].at = now
  /\ new_notes[Len(new_notes)].text = text

\* C19: the notes of an order are an append-only log under the lifecycle
\* operations: setStatus with notes and a successful cancel keep the
\* notes there are as a prefix and add one timestamped line after them;
\* setStatus without notes and setPaymentStatus leave the notes as they
\* are.
C19_NotesAppendOnly ==
  \A order_id \in DOMAIN orders, sendOk \in BOOLEAN :
    LET old_notes == orders[order_id].notes
    IN  /\ \A status \in OrderStatuses, notes \in NoteTexts :
             LET out == SetStatusOutcome(kafka, order_id, status, notes,
                                         sendOk)
             IN  IF notes \in {None, ""}
                 THEN out.orders[order_id].notes = old_notes
                 ELSE Appended(old_notes, out.orders[order_id].notes, notes)
        /\ \A token \in Tokens, callOk \in BOOLEAN :
             LET out == CancelOrderOutcome(kafka, order_id, token, callOk,
                                           sendOk)
             IN  IF out.code = "OK"
                 THEN Appended(old_notes, out.orders[order_id].notes,
                               "Cancelled by customer")
                 ELSE out.orders[order_id].notes = old_notes
        /\ \A payment_status \in PaymentStatuses, txn \in {None, "txn-1"} :
             SetPaymentStatusOutcome(kafka, order_id, payment_status, txn,
                                     sendOk).orders[order_id].notes
               = old_notes

\* an order with a note from a status update has been cancelled, and the
\* cancellation's note follows the earlier one
C19_Witness ==
  /\ result.op = "cancel_order" /\ result.code = "OK"
  /\ Len(orders[result.order_id].notes) = 2
  /\ orders[result.order_id].notes[1].text = "restock"
  /\ orders[result.order_id].notes[2].text = "Cancelled by customer"

\* the two orders agree on the lines, the amounts, the owner and the number
SameSale(a, b) ==
  /\ a.items = b.items
  /\ a.subtotal = b.subtotal
  /\ a.tax_amount = b.tax_amount
  /\ a.shipping_cost = b.shipping_cost
  /\ a.discount_amount = b.discount_amount
  /\ a.total_amount = b.total_amount
  /\ a.user_id = b.user_id
  /\ a.order_number = b.order_number

C14_DuplicateEmailIsConflict ==
  \A name \in UserNames, email \in RawEmails, insertOk \in BOOLEAN :
    LET user_data == UserCreate(name, email)
        out == RegisterUserOutcome(user_data, insertOk)
    IN  UserExists(user_data.email) =>
          out.code = "Conflict" /\ out.users = users

\* C14 (amended): registering with the email of a stored user is answered
\* BadRequest (HTTP 400) and the users collection is left as it was; a
\* registration with an unused email that is stored is answered Created and
\* adds exactly that account; no two stored accounts ever share an email.
C14_DuplicateEmailIsBadRequest ==
  /\ \A name \in UserNames, email \in RawEmails, insertOk \in BOOLEAN :
       LET user_data == UserCreate(name, email)
           out == RegisterUserOutcome(user_data, insertOk)
       IN  /\ UserExists(user_data.email) =>
                out.code = "BadRequest" /\ out.users = users
           /\ ~UserExists(user_data.email) /\ insertOk =>
                /\ out.code = "Created"
                /\ Len(out.users) = Len(users) + 1
                /\ out.users[Len(out.users)].email = user_data.email
                /\ SubSeq(out.users, 1, Len(users)) = users
  /\ \A i, j \in DOMAIN users :
       users[i].email = users[j].email => i = j

\* the second registration with an email has been turned down, the account
\* of the first being the only one with it
C14_Witness ==
  /\ result.op = "register_user"
  /\ result.code = "BadRequest"
  /\ Cardinality({i \in DOMAIN users : users[i].email = "ann@example.com"}) = 1
  /\ Len(users) = 1


\* the stock of a product a change is asked for, None when there is none
StockOf(product_id) ==
  IF product_id \in DOMAIN products /\ ~products[product_id].stock_is_null
  THEN products[product_id].stock_quantity ELSE -1

\* C13: no stored product ever has a negative stock, whatever update_stock,
\* create_product and update_product requests overlap; an update_stock
\* whose change would take the stock it reads below zero is turned down
\* before anything is written.
C13_StockNeverNegative ==
  /\ \A product_id \in DOMAIN products :
       products[product_id].stock_quantity >= 0
  /\ \A product_id \in StockedIds, quantity_change \in StockChanges :
       result.op # "none" /\ StockOf(product_id) + quantity_change < 0 =>
         ~UpdateStockDoc(ProductGet(products, product_id),
                         quantity_change).found
  /\ \A t \in Tasks :
       tasks[t].op \in {"update_stock", "create_product"} =>
         tasks[t].product.stock_quantity >= 0

\* an update_stock has been turned down on a product out of stock while
\* another request on the same product is suspended before its save
C13_Witness ==
  /\ result.op = "update_stock"
  /\ result.code = "BadRequest"
  /\ result.detail = {"S"}
  /\ products["S"].stock_quantity = 0
  /\ \E t \in Tasks :
       tasks[t].op = "update_product" /\ tasks[t].product_id = "S"


\* C16: right after a successful delete_product the product is NotFound by
\* id and absent from the default listing, and right after a successful
\* delete_category the category is NotFound by id and absent from the
\* listing of active categories.
C16_SoftDeletedHidden ==
  /\ result.op = "delete_product" /\ result.code = "OK" =>
       \A product_id \in result.detail :
         /\ GetProductByIdOutcome(products, product_id).code = "NotFound"
         /\ product_id \notin GetAllProductsOutcome(products).body
  /\ result.op = "delete_category" /\ result.code = "OK" =>
       \A category_id \in result.detail :
         /\ GetCategoryByIdOutcome(categories, category_id).code = "NotFound"
         /\ category_id \notin GetAllCategoriesOutcome(categories, TRUE).body

\* what of C16 the product service keeps: a retired product is hidden from
\* both reads, a retired category from the listing of active categories
C16_HiddenExceptCategoryById ==
  /\ result.op = "delete_product" /\ result.code = "OK" =>
       \A product_id \in result.detail :
         /\ GetProductByIdOutcome(products, product_id).code = "NotFound"
         /\ product_id \notin GetAllProductsOutcome(products).body
  /\ result.op = "delete_category" /\ result.code = "OK" =>
       \A category_id \in result.detail :
         /\ GetCategoryByIdOutcome(categories, category_id).code = "OK"
         /\ category_id \notin GetAllCategoriesOutcome(categories, TRUE).body


\* the units of product_id the stored orders ask for
RECURSIVE Ordered(_, _)
Ordered(product_id, n) ==
  IF n = 0 THEN 0
  ELSE Ordered(product_id, n - 1)
       + SumOfProducts([i \in 1..Len(orders[n].items) |->
           [unit_price |-> 1,
            quantity |-> IF orders[n].items[i].product_id = product_id
                         THEN orders[n].items[i].quantity ELSE 0]])

\* C15: a create_order that has passed the availability check stores its
\* order when its insert succeeds, whatever orders have been stored since
\* the check; nothing is checked again and no stock was taken by the check.
C15_CheckedOrdersPersist ==
  \A t \in Tasks, sendOk \in BOOLEAN :
    tasks[t].op = "create_order" =>
      LET out == CreateOrderOutcome(kafka, tasks[t].token, tasks[t].callOk,
                                    tasks[t].items, tasks[t].notes, TRUE,
                                    sendOk)
      IN  /\ Len(out.orders) = Len(orders) + 1
          /\ out.code \in {"Created", "Internal"}
          /\ \A i \in 1..Len(tasks[t].items) :
               /\ out.orders[Len(out.orders)].items[i].product_id
                    = tasks[t].items[i].product_id
               /\ out.orders[Len(out.orders)].items[i].quantity
                    = tasks[t].items[i].quantity

\* two orders for the last unit of product S are stored: the orders ask for
\* more units than the product has
C15_Witness ==
  /\ Len(orders) = 2
  /\ Ordered("S", Len(orders)) = 2
  /\ products["S"].stock_quantity = 1
  /\ result.op = "create_order"
  /\ result.code = "Created"


\* the notification a handler has just stored
Latest(notifs) == notifs[Len(notifs)]

\* C17: a user.registered event published by the user service's emitter,
\* delivered to the dispatcher, creates a welcome email notification for
\* the event's email with status pending; a product.stock_updated event
\* published by the product service's emitter creates a low-stock
\* notification when its stock_quantity is below 10 and none otherwise.
C17_EmittedEventsNotify ==
  \A i \in DOMAIN emitted :
    LET message == emitted[i]
        event_data == message.value.data
        notifs == ProcessMessage(notifications, message, TRUE, FALSE, FALSE)
    IN  /\ event_data.event_type = "user.registered" =>
             /\ Len(notifs) = Len(notifications) + 1
             /\ Latest(notifs).type = "email"
             /\ Latest(notifs).recipient = event_data.email
             /\ Latest(notifs).event_type = "user.registered"
             /\ Latest(notifs).status = "pending"
        /\ event_data.event_type = "product.stock_updated" =>
             IF event_data.stock_quantity < LowStockThreshold
             THEN /\ Len(notifs) = Len(notifications) + 1
                  /\ Latest(notifs).event_type = "product.stock_updated"
             ELSE notifs = notifications

\* what the dispatcher does with the messages of the two emitters: their
\* envelope names the topic, no handler is chosen and nothing is stored
C17_EmittedEventsUnhandled ==
  \A i \in DOMAIN emitted, insertOk \in BOOLEAN, sentOk \in BOOLEAN,
     deliveredOk \in BOOLEAN :
    /\ emitted[i].value.event_type = emitted[i].topic
    /\ ProcessMessage(notifications, emitted[i], insertOk, sentOk,
                      deliveredOk) = notifications

\* a message of the user service's emitter has been delivered and nothing
\* was stored for it
C17_Unhandled_Witness ==
  /\ result.op = "process_message"
  /\ result.code = None
  /\ result.detail[1].value.service = "user-service"
  /\ result.detail[1].value.data.event_type = "user.registered"
  /\ notifications = <<>>


\* the milestone timestamp of the status of an order, the current time
\* where the status has none
MilestoneOf(order) ==
  CASE order.status = "confirmed" -> order.confirmed_at
    [] order.status = "shipped" -> order.shipped_at
    [] order.status = "delivered" -> order.delivered_at
    [] OTHER -> now

\* C29: an order create_order stores is pending, its payment pending, and
\* has no milestone timestamp; in every state reached through create_order,
\* setStatus, setPaymentStatus and cancel an order that is confirmed has
\* confirmed_at set, one that is shipped has shipped_at set and one that is
\* delivered has delivered_at set.
C29_MilestoneOfStatusSet ==
  /\ \A order_id \in DOMAIN orders : MilestoneOf(orders[order_id]) # NoTime
  /\ kafka.started /\ orders = <<>> =>
       \A token \in Tokens, items \in SampleRequests, sendOk \in BOOLEAN :
         LET out == CreateOrderOutcome(kafka, token, TRUE, items, None, TRUE,
                                       sendOk)
         IN  \A order_id \in DOMAIN out.orders :
               /\ out.orders[order_id].status = "pending"
               /\ out.orders[order_id].payment_status = "pending"
               /\ out.orders[order_id].confirmed_at = NoTime
               /\ out.orders[order_id].shipped_at = NoTime
               /\ out.orders[order_id].delivered_at = NoTime

\* an order has been delivered without ever having been confirmed or
\* shipped: the one milestone it has is that of its status
C29_Witness ==
  /\ result.op = "update_order_status"
  /\ \E order_id \in DOMAIN orders :
       /\ orders[order_id].status = "delivered"
       /\ orders[order_id].delivered_at # NoTime
       /\ orders[order_id].confirmed_at = NoTime
       /\ orders[order_id].shipped_at = NoTime
       /\ orders[order_id].payment_status = "paid"


\* C27: every stored order has at least one line item; a create_order
\* request without items is turned down and stores nothing.
C27_OrdersHaveItems ==
  \A order_id \in DOMAIN orders : Len(orders[order_id].items) >= 1

\* what create_order stores for a request without items: an order of no
\* line, subtotal 0, charged the flat shipping
C27_EmptyOrderStored ==
  kafka.started /\ orders = <<>> =>
    \A sendOk \in BOOLEAN :
      LET out == CreateOrderOutcome(kafka, "tokA", TRUE, <<>>, None, TRUE,
                                    sendOk)
      IN  /\ Len(out.orders) = 1
          /\ out.orders[1].items = <<>>
          /\ out.orders[1].subtotal = 0
          /\ out.orders[1].total_amount = FlatShipping * Dollar


\* C28: a shipping-address record exists exactly when the order that owns
\* it is stored: every stored address is the shipping address of a stored
\* order and every stored order's address is stored, also after a
\* create_order whose order could not be inserted.
C28_NoOrphanAddress ==
  /\ \A address_id \in addresses :
       \E order_id \in DOMAIN orders :
         orders[order_id].shipping_address = address_id
  /\ \A order_id \in DOMAIN orders :
       orders[order_id].shipping_address \in addresses

\* what create_order leaves when the insert of the order fails: the answer
\* is Internal, no order is added and the address it wrote stays
C28_FailedInsertLeavesAddress ==
  kafka.started =>
    \A items \in SampleRequests, sendOk \in BOOLEAN :
      LET out == CreateOrderOutcome(kafka, "tokA", TRUE, items, None, FALSE,
                                    sendOk)
      IN  ReserveProducts(items).success =>
            /\ out.code = "Internal"
            /\ out.orders = orders
            /\ Cardinality(out.addresses) = Cardinality(addresses) + 1


\* C26: no two stored users share an email, in every reachable state, also
\* when the existence check of one register_user falls between the check
\* and the insert of another with the same email.
C26_EmailsUnique ==
  \A i, j \in DOMAIN users : users[i].email = users[j].email => i = j

\* the task t writes the document it holds for handler op in this step
Writes(t, op) ==
  /\ tasks[t].op = op
  /\ tasks[t].step = "save"
  /\ tasks'[t].op = op
  /\ tasks'[t].step = "publish"

\* C24: when a status update and a payment update of one order overlap,
\* the save of the one never replaces the field of the other: a status
\* update leaves the stored payment_status as it is, a payment update
\* leaves the stored status as it is, so that both values are stored once
\* both requests have succeeded.
C24_SavesKeepOtherField ==
  [][\A t \in Tasks :
       /\ Writes(t, "update_order_status") =>
            orders'[tasks[t].order_id].payment_status =
              orders[tasks[t].order_id].payment_status
       /\ Writes(t, "update_payment_status") =>
            orders'[tasks[t].order_id].status =
              orders[tasks[t].order_id].status]_vars

\* C25: cancel_order never sets an order to cancelled that is stored as
\* shipped or delivered at the moment it writes.
C25_CancelKeepsShipped ==
  [][\A t \in Tasks :
       Writes(t, "cancel_order")
         /\ orders[tasks[t].order_id].status \in {"shipped", "delivered"}
       => orders'[tasks[t].order_id].status # "cancelled"]_vars

\* C30: once every status update of an order has completed, the event the
\* last of them published names the status the order is stored with.
C30_LastEventNamesStatus ==
  (\A t \in Tasks : tasks[t] = Idle)
    /\ result.op = "update_order_status" /\ result.code = "OK"
  => /\ emitted # <<>>
     /\ emitted[Len(emitted)].data_event_type =
          StatusEvent(orders[result.order_id].status)

\* C22: no notification has been retried more often than its own
\* max_retries allows.
C22_RetriesWithinOwnBound ==
  \A i \in DOMAIN notifications :
    notifications[i].retry_count <= notifications[i].max_retries

\* C21: a delivered notification is an email with sent_at set; a dispatch
\* that succeeds leaves an email delivered and any other notification
\* sent; a dispatch that raises leaves the notification failed with its
\* retry_count one higher.
C21_DeliveredIsSentEmail ==
  /\ \A i \in DOMAIN notifications :
       notifications[i].status = "delivered" =>
         notifications[i].type = "email" /\ notifications[i].sent_at # NoTime
  /\ result.op = "create_notification" =>
       \A i \in DOMAIN notifications, raises \in BOOLEAN :
         LET sent == SendNotification(notifications[i], raises, AllOk)
         IN  IF raises
             THEN /\ sent.doc.status = "failed"
                  /\ sent.doc.retry_count = notifications[i].retry_count + 1
             ELSE sent.doc.status =
                    IF notifications[i].type = "email" THEN "delivered" ELSE "sent"

\* the notifications a sweep has to re-attempt
Due(notifs) ==
  {i \in DOMAIN notifs :
     notifs[i].status = "failed" /\ notifs[i].retry_count < SweepMaxRetries}

\* C23: one run of retry_failed_notifications re-attempts every failed
\* notification whose retry_count is below the bound, however many there
\* are, leaves every other notification alone, and returns the number of
\* re-attempts that succeeded.
C23_SweepRetriesAllDue ==
  [][result'.op = "retry_failed_notifications" =>
       /\ \A i \in Due(notifications) : notifications'[i] # notifications[i]
       /\ \A i \in DOMAIN notifications \ Due(notifications) :
            notifications'[i] = notifications[i]
       /\ result'.detail =
            <<Cardinality({i \in Due(notifications) :
                             notifications'[i].status # "failed"})>>]_vars

====
